---- MODULE Spec2Model ----
(***************************************************************************)
(* Account selection and request dispatch of opencode-openai-multi-auth:   *)
(* the session binding store (src/lib/session-bindings.ts), the session    *)
(* resolution and the recursive dispatch chain executeRequest              *)
(* (src/index.ts), over an account pool whose manager is described by the  *)
(* specification only, and the handling of upstream responses              *)
(* (src/lib/request/response-handler.ts).                                  *)
(*                                                                         *)
(* The plugin runs in its default configuration: request logging is off    *)
(* (ENABLE_PLUGIN_REQUEST_LOGGING is not set), so logRequest returns at    *)
(* once; request bodies are JSON objects.                                  *)
(***************************************************************************)
EXTENDS Integers, FiniteSets, Sequences, TLC

(* ------------------------------ bounds --------------------------------- *)

\* Largest pool size explored (pool sizes 1..MaxAccounts).
MaxAccounts == 3

\* Largest pool size explored with arbitrary cool-downs and refresh-failed
\* marks left by earlier requests; larger pools start unmarked.
MaxMarkedAccounts == 2

\* Largest account index a caller binds through the store API in SpecStore.
MaxStoreIndex == 1

\* Longest event stream (in lines) handed to the response handlers.
MaxStreamLen == 4

\* Most selections made through one manager in SpecSelect.
MaxPicks == 3

(* ----------------------------- constants ------------------------------- *)

\* Map.get on a missing key (session-bindings.ts get): undefined.
Undefined == -1

\* The value "no account" (null) returned by the selection functions.
NoAccount == -1

\* The model requested by the caller and its configured fallback.
ModelX == "X"
ModelY == "Y"
\* A request body without a string model field.
NoModel == "none"
Models == {ModelX, ModelY}

\* Session keys the fetch wrapper can form: non-empty trimmed strings
\* (extractPromptCacheKeyFromBody); NoKey is its undefined.
SessionKeys == {"s1", "s2"}
NoKey == "nokey"

\* The fetch calls that can be in flight together.
Requests == {"r1", "r2"}

\* Keys a binding file on disk may hold: any string, the empty one included.
FileKeys == SessionKeys \cup {""}

VARIABLES
    \* account pool (AccountManager)
    poolSize,        \* number of accounts; indices are 0..poolSize-1
    rateLimited,     \* account -> set of scopes whose cool-down is in force
    refreshFailed,   \* account -> marked refresh-failed
    \* SessionBindingStore
    bindings,        \* the in-memory Map: session key -> index or Undefined
    file,            \* content of the binding file on disk
    storePc,         \* "idle" | "saving" | "truncated" | "crashed"
    prevFile,        \* content of the file when the current save began
    lastOp,          \* the last store call that returned
    fresh,           \* what a fresh store instance got from loadFromDisk
    \* one logical request (fetch -> executeRequest chain)
    pc,              \* "start" | "exec" | "done"
    sessionKey,      \* prompt_cache_key of the request, or NoKey
    reqModel,        \* model of the caller's body
    curModel,        \* model of the body passed to the current invocation
    initBody,        \* init.body passed to the current invocation
    urlOk,           \* the rewritten URL passes validateCodexBackendUrl
    cur,             \* account of the current invocation
    retryCount,      \* executeRequest's retryCount
    tried,           \* executeRequest's triedAccountIndices
    result,          \* status of the response returned to the caller, 0 = none
    \* observation of the chain
    hist,            \* one entry per invocation of executeRequest, in order
    passStart,       \* length of hist at the last fallback restart
    restarts,        \* fallback-model restarts
    boundAtArrival,  \* binding of the session key when fetch was called
    boundAtStart,    \* binding of the session key when dispatch began
    \* AccountManager selection state
    cursor,          \* index of the current account, NoAccount before any pick
    picks,           \* the selections made so far, in order
    strategy,        \* accountSelectionStrategy of the manager
    run,             \* the latest selections made by one call for one model
                     \* with no change of the pool in between or since
    \* one upstream response on its way back to the caller
    response,        \* the upstream Response
    isStreaming,     \* the caller's body had stream === true
    returned,        \* the Response handed back, NotReturned before
    inflight,        \* concurrent fetch calls: where each is in resolving
                     \* its account, its session key, the account it got
    retryAfter       \* one 429: its Retry-After header, the reset time of its
                     \* body, the clock, and the cool-down computed from them

poolVars == <<poolSize, rateLimited, refreshFailed>>
storeVars == <<bindings, file, storePc, prevFile, lastOp, fresh>>
reqVars == <<pc, sessionKey, reqModel, curModel, initBody, urlOk, cur, retryCount, tried, result>>
obsVars == <<hist, passStart, restarts, boundAtArrival, boundAtStart>>
selVars == <<cursor, picks, strategy, run>>
ioVars == <<response, isStreaming, returned, retryAfter, inflight>>
vars == <<poolVars, storeVars, reqVars, obsVars, selVars, ioVars>>

(* ======================= SessionBindingStore =========================== *)

\* JSON values a bindings entry of a file can hold.
JInt(n) == <<"int", n>>
JOther == <<"other", 0>>          \* a string, a fraction, null, an object
JMissing == <<"missing", 0>>      \* the key is not in the object
JVals == {JInt(n) : n \in -1..MaxStoreIndex} \cup {JOther}

\* The empty Map.
EmptyMap == [k \in SessionKeys |-> Undefined]

\* File contents.
Absent == [kind |-> "absent", doc |-> [k \in FileKeys |-> JMissing]]
Malformed == [kind |-> "malformed", doc |-> [k \in FileKeys |-> JMissing]]
Unreadable == [kind |-> "unreadable", doc |-> [k \in FileKeys |-> JMissing]]
NoBindings == [kind |-> "nobindings", doc |-> [k \in FileKeys |-> JMissing]]
\* A strict prefix of a document: what O_TRUNC plus a partial write leaves.
Truncated == [kind |-> "truncated", doc |-> [k \in FileKeys |-> JMissing]]
Doc(d) == [kind |-> "doc", doc |-> d]

\* saveToDisk's payload: {version: 1, bindings: Object.fromEntries(map)}
\* as JSON.stringify writes it.
Serialize(map) ==
    Doc([k \in FileKeys |->
            IF k \in SessionKeys /\ map[k] # Undefined THEN JInt(map[k])
            ELSE JMissing])

\* loadFromDisk's per-entry filter: skip empty keys, non-integers, negatives.
ValidEntryOffByOne(k, jv) == k # "" /\ jv[1] = "int" /\ jv[2] > 0

ValidEntry(k, jv) == k # "" /\ jv[1] = "int" /\ jv[2] >= 0

\* loadFromDisk on a fresh store: the Map it leaves, and whether it raised.
LoadFromDiskNoCatch(f) ==
    CASE f.kind = "absent" -> [raised |-> FALSE, map |-> EmptyMap]
      [] f.kind \in {"malformed", "truncated", "unreadable"} ->
            [raised |-> TRUE, map |-> EmptyMap]
      [] f.kind = "nobindings" -> [raised |-> FALSE, map |-> EmptyMap]
      [] OTHER ->
            [raised |-> FALSE,
             map |-> [k \in SessionKeys |->
                        IF f.doc[k] # JMissing /\ ValidEntry(k, f.doc[k])
                        THEN f.doc[k][2] ELSE Undefined]]

LoadFromDisk(f) ==
    CASE f.kind = "absent" -> [raised |-> FALSE, map |-> EmptyMap]
      \* readFileSync or JSON.parse throws inside the try: caught
      [] f.kind \in {"malformed", "truncated", "unreadable"} ->
            [raised |-> FALSE, map |-> EmptyMap]
      [] f.kind = "nobindings" -> [raised |-> FALSE, map |-> EmptyMap]
      [] OTHER ->
            [raised |-> FALSE,
             map |-> [k \in SessionKeys |->
                        IF f.doc[k] # JMissing /\ ValidEntry(k, f.doc[k])
                        THEN f.doc[k][2] ELSE Undefined]]

NoFresh == [loaded |-> FALSE, raised |-> FALSE, map |-> EmptyMap, from |-> "none"]
NoOp == [op |-> "none", key |-> NoKey, val |-> Undefined, persisted |-> FALSE]

(* ====================== AccountManager (pool) ========================== *)

AllAccounts == 0..(MaxAccounts - 1)
Accounts == 0..(poolSize - 1)

\* Scopes of a cool-down: one model, or NoModel for a global one.
Scopes == Models \cup {NoModel}

\* isAvailable(account, model?): not refresh-failed, and no cool-down in
\* force that is global or scoped to the model asked for.
IsAvailableIn(rl, rf, a, m) ==
    /\ ~rf[a]
    /\ NoModel \notin rl[a]
    /\ (m = NoModel \/ m \notin rl[a])

IsAvailable(a, m) == IsAvailableIn(rateLimited, refreshFailed, a, m)

AvailableAccounts(m) == {a \in Accounts : IsAvailable(a, m)}

\* The lowest index of a non-empty set of accounts.
Lowest(S) == CHOOSE a \in S : \A b \in S : a <= b

\* The exclusion query, a mutation: cool-downs scoped to a model are not
\* looked at.
GetNextAvailableAccountExcludingAnyModel(rl, rf, excluded, m) ==
    LET ok == {a \in Accounts : a \notin excluded /\ IsAvailableIn(rl, rf, a, NoModel)}
    IN  IF ok = {} THEN NoAccount ELSE Lowest(ok)

\* getNextAvailableAccountExcluding(excluded, model?), on the pool as the
\* marks rl and rf leave it.
GetNextAvailableAccountExcluding(rl, rf, excluded, m) ==
    LET ok == {a \in Accounts : a \notin excluded /\ IsAvailableIn(rl, rf, a, m)}
    IN  IF ok = {} THEN NoAccount ELSE Lowest(ok)

\* getNextAvailableAccount(model?):
\* every strategy (sticky, round-robin, hybrid, any cursor) returns an
\* account available for the model, or null when there is none.
GetNextAvailableAccountIn(rl, rf, m) ==
    LET ok == {a \in Accounts : IsAvailableIn(rl, rf, a, m)}
    IN  IF ok = {} THEN {NoAccount} ELSE ok

GetNextAvailableAccount(m) == GetNextAvailableAccountIn(rateLimited, refreshFailed, m)

\* getNextAvailableAccountForNewSession(model?)
GetNextAvailableAccountForNewSession(m) == GetNextAvailableAccount(m)

\* markRateLimited(account, retryAfterMs, model?): a cool-down scoped to the
\* model (global without one) is in force on the account afterwards.  A
\* duration that is already over leaves the account as selectable as an
\* unmarked one; the marked account is in the tried set for the rest of its
\* pass, so only later requests could tell, and those start from any marks.
MarkRateLimited(a, m) == [rateLimited EXCEPT ![a] = @ \cup {m}]

\* markRefreshFailed(account, reason)
MarkRefreshFailed(a) == [refreshFailed EXCEPT ![a] = TRUE]

\* MODEL_FALLBACKS[model]: the configured substitute, NoModel when none.
ModelFallbacks(m) == IF m = ModelX THEN ModelY ELSE NoModel

(* ============================= responses =============================== *)

\* The lines of an event stream body.  Every line is a data line or the
\* blank line that ends an event:
\*   "done1", "done2"  data: a JSON event of type response.done or
\*                     response.completed whose response is payload 1 or 2
\*   "doneNone"        data: such an event without a response member
\*   "other"           data: any other JSON event, [DONE], or no JSON at all
\*   "empty"           data: with nothing after it
\*   "sep"             the blank line between two events
DataLines == {"done1", "done2", "doneNone", "other", "empty"}
Lines == DataLines \cup {"sep"}
Streams == UNION {[1..n -> Lines] : n \in 0..MaxStreamLen}

\* parsePayload's null, and the falsy response of an event without one.
NoPayload == 0
Payloads == {1, 2}

\* Bodies: the text of an event stream, a JSON document holding a payload,
\* a JSON error document with its error code, or no body at all.
TextBody(stream) == [kind |-> "text", text |-> stream, json |-> NoPayload, code |-> ""]
JsonBody(r) == [kind |-> "json", text |-> <<>>, json |-> r, code |-> ""]
ErrorBody(code) == [kind |-> "error", text |-> <<>>, json |-> NoPayload, code |-> code]
NoBody == [kind |-> "none", text |-> <<>>, json |-> NoPayload, code |-> ""]

\* The content-type header: absent, or one of the two media types.
NoHeader == "absent"
EventStream == "text/event-stream; charset=utf-8"
JsonType == "application/json; charset=utf-8"
ContentTypes == {NoHeader, EventStream, JsonType}

Resp(status, ctype, body) == [status |-> status, ctype |-> ctype, body |-> body]

\* A call that threw instead of returning a Response.
Thrown == Resp(0, NoHeader, NoBody)

\* parsePayload(payload): the response member of a completion event.
ParsePayload(line) ==
    CASE line = "done1" -> 1
      [] line = "done2" -> 2
      [] OTHER -> NoPayload

\* text.split('\n\n'): the runs of lines between blank lines.
RECURSIVE SplitEvents(_)
SplitEvents(stream) ==
    IF \A i \in 1..Len(stream) : stream[i] # "sep"
    THEN <<stream>>
    ELSE LET i == CHOOSE j \in 1..Len(stream) :
                     stream[j] = "sep" /\ \A k \in 1..(j - 1) : stream[k] # "sep"
         IN  <<SubSeq(stream, 1, i - 1)>> \o SplitEvents(SubSeq(stream, i + 1, Len(stream)))

\* dataLines.join('\n').trim() of one event: the one payload when all
\* other data lines are empty; several payloads joined are no JSON.
JoinedPayload(event) ==
    LET full == SelectSeq(event, LAMBDA l : l # "empty")
    IN  CASE Len(full) = 0 -> "empty"
          [] Len(full) = 1 -> full[1]
          [] OTHER -> "other"

\* A mutation: the scan keeps going and the last hit wins.
LastParsed(payloads) ==
    LET hits == {i \in 1..Len(payloads) : ParsePayload(payloads[i]) # NoPayload}
    IN  IF hits = {} THEN NoPayload
        ELSE ParsePayload(payloads[CHOOSE i \in hits : \A j \in hits : i >= j])

\* The first truthy parsePayload over a sequence of payloads, else null.
FirstParsed(payloads) ==
    LET hits == {i \in 1..Len(payloads) : ParsePayload(payloads[i]) # NoPayload}
    IN  IF hits = {} THEN NoPayload
        ELSE ParsePayload(payloads[CHOOSE i \in hits : \A j \in hits : i <= j])

\* parseSseStream(sseText): the events first, then every data line alone.
ParseSseStream(stream) ==
    LET events == SplitEvents(stream)
        joined == [i \in 1..Len(events) |-> JoinedPayload(events[i])]
        byEvent == FirstParsed(joined)
    IN  IF byEvent # NoPayload THEN byEvent
        ELSE FirstParsed(SelectSeq(stream, LAMBDA l : l # "sep"))

\* A mutation: a stream without a final response is an error.
ConvertSseToJsonOrThrow(resp, headers) ==
    IF resp.body.kind # "text" THEN Thrown
    ELSE LET finalResponse == ParseSseStream(resp.body.text)
         IN  IF finalResponse = NoPayload
             THEN Thrown
             ELSE Resp(resp.status, JsonType, JsonBody(finalResponse))

\* convertSseToJson(response, headers), the stream read to its end.
ConvertSseToJson(resp, headers) ==
    IF resp.body.kind # "text" THEN Thrown
    ELSE LET finalResponse == ParseSseStream(resp.body.text)
         IN  IF finalResponse = NoPayload
             THEN Resp(resp.status, headers, resp.body)
             ELSE Resp(resp.status, JsonType, JsonBody(finalResponse))

\* ensureContentType(headers)
EnsureContentType(ctype) == IF ctype = NoHeader THEN EventStream ELSE ctype

\* handleSuccessResponse(response, isStreaming), a mutation: a caller that
\* did not ask for a stream gets the converted document.
HandleSuccessResponseConverting(resp, streaming) ==
    IF streaming THEN Resp(resp.status, EnsureContentType(resp.ctype), resp.body)
    ELSE ConvertSseToJson(resp, EnsureContentType(resp.ctype))

\* handleSuccessResponse(response, isStreaming): the body as it came, for
\* both values of isStreaming, under the upstream content type.
HandleSuccessResponse(resp, streaming) ==
    Resp(resp.status, EnsureContentType(resp.ctype), resp.body)

\* The error code with which the backend reports an exhausted usage limit.
UsageLimitReached == "usage_limit_reached"
ErrorCodes == {UsageLimitReached, "not_found", "other"}

\* handleErrorResponse(response), a mutation: every 404 becomes a 429.
HandleErrorResponseAny404(resp) ==
    IF resp.status = 404 THEN [resp EXCEPT !.status = 429] ELSE resp

\* handleErrorResponse(response): a 404 carrying the usage-limit code is
\* answered as 429; the body is kept.
HandleErrorResponse(resp) ==
    IF resp.status = 404 /\ resp.body.code = UsageLimitReached
    THEN [resp EXCEPT !.status = 429]
    ELSE resp

NotReturned == [by |-> "none", resp |-> Thrown]

(* ====================== the cool-down of a 429 ========================= *)

\* The number that is not a number: parseInt of a text without leading
\* digits, the time of an invalid Date, and every sum or product with it.
NaN == -999999

\* No 429 is being handled.
NoCooldown ==
    [header |-> "absent", resetTime |-> [kind |-> "absent", at |-> 0], now |-> 0,
     computed |-> FALSE, ms |-> 0]

\* parseInt(retryAfterHeader): the leading digits, NaN when there are none
\* (as for an HTTP date).
ParseInt(header) ==
    CASE header = "0" -> 0
      [] header = "2" -> 2
      [] header = "2.5" -> 2
      [] header = "2s" -> 2
      [] OTHER -> NaN

\* new Date(resetTime).getTime(): a number is a time in milliseconds, a
\* date text is parsed, any other text gives an invalid Date.
DateGetTime(resetTime) ==
    IF resetTime.kind \in {"number", "date"} THEN resetTime.at ELSE NaN

\* retryAfterMs: from the Retry-After header when there is one, else from
\* the reset time of the body when it has one, else 60000.
RetryAfterMs(header, resetTime, now) ==
    IF header \notin {"absent", ""}
    THEN IF ParseInt(header) = NaN THEN NaN ELSE ParseInt(header) * 1000
    ELSE IF resetTime.kind \in {"unparseable", "absent"} THEN 60000
    ELSE IF resetTime.kind = "number" /\ resetTime.at = 0 THEN 60000
    ELSE IF DateGetTime(resetTime) = NaN THEN NaN
    ELSE DateGetTime(resetTime) - now

(* ========================= fetch / executeRequest ====================== *)

\* The upstream response behind each non-success answer of a dispatch.
UpstreamError(u) ==
    CASE u = "429" -> Resp(429, JsonType, ErrorBody("other"))
      [] u = "401" -> Resp(401, JsonType, ErrorBody("other"))
      [] u \in {"400u", "400x"} -> Resp(400, JsonType, ErrorBody("other"))
      [] u = "404ul" -> Resp(404, JsonType, ErrorBody(UsageLimitReached))
      [] u = "404" -> Resp(404, JsonType, ErrorBody("not_found"))
      [] OTHER -> Resp(500, JsonType, ErrorBody("other"))

\* handleErrorResponse: the status handed to the caller for an upstream
\* non-success answer (a usage-limit 404 is remapped to 429).
HandleErrorStatus(u) == HandleErrorResponse(UpstreamError(u)).status

\* An exception that reaches the caller of fetch instead of a Response.
Raised == -2

\* retryCount < accountManager.getAccountCount() - 1
RetryBudgetLeft(rc) == rc < poolSize - 1

\* modifiedBody.model = fallbackModel
FallbackBodyModelKept(requested, fallback) == requested

FallbackBodyModel(requested, fallback) == fallback

\* init.body as the caller passed it: its model, its other fields and its
\* text.
CallerBody == [model |-> reqModel, rest |-> "caller", text |-> "caller"]

\* modifiedInit, a mutation: the body goes through the Codex request
\* transformation.
ModifiedInitTransformed(b, fallback) ==
    [model |-> FallbackBodyModel(b.model, fallback), rest |-> "codex",
     text |-> "serialised"]

\* modifiedInit: the body parsed, its model replaced, serialised again.
ModifiedInit(b, fallback) ==
    [model |-> FallbackBodyModel(b.model, fallback), rest |-> b.rest,
     text |-> "serialised"]

\* Upstream answers of one dispatch.
Upstream == {"200", "429", "401", "400u", "400x", "404ul", "404", "500"}

\* ensureValidToken(account): the credential is unexpired ("valid"), was
\* expired and refreshed ("refreshed"), or the refresh was declined ("failed").
TokenOutcomes == {"valid", "refreshed", "failed"}

\* The refresh-failed marks after ensureValidToken(a) with outcome t.
AfterEnsureValidToken(a, t) ==
    CASE t = "valid" -> refreshFailed
      [] t = "refreshed" -> [refreshFailed EXCEPT ![a] = FALSE]
      [] OTHER -> MarkRefreshFailed(a)

\* What saveToDisk can leave on disk: the new document, the old content
\* (mkdir or open failed), or a truncated file (the write failed).
SaveOutcomes(map, f) == {Serialize(map), f, Truncated}

\* saveToDisk with its try/catch removed: a write that did not leave the
\* new document on disk throws out of set and delete, and so out of fetch.
SaveToDiskThrowsUncaught(map, f) ==
    /\ sessionKey # NoKey
    /\ map[sessionKey] # boundAtArrival
    /\ f # Serialize(map)

\* saveToDisk catches whatever mkdirSync and writeFileSync throw.
SaveToDiskThrows(map, f) == FALSE

\* triedAccountIndices.add(account.index)
TriedAddForgotten(tr, a) == tr

TriedAdd(tr, a) == tr \cup {a}

\* What one invocation met: the upstream answer, or why nothing was sent.
Entry(answer, logged) ==
    [account |-> cur, model |-> curModel, answer |-> answer, logged |-> logged]

\* executeRequest never refers to sessionBindingStore.
DispatchRebinds ==
    /\ bindings' = IF sessionKey = NoKey THEN bindings
                   ELSE [bindings EXCEPT ![sessionKey] = cur]
    /\ UNCHANGED <<file, storePc, prevFile, lastOp, fresh>>

DispatchStoreFrame == UNCHANGED storeVars

\* Every invocation of executeRequest(cur, input, init, retryCount, tried).
Enter(answer, logged) ==
    /\ pc = "exec"
    /\ hist' = Append(hist, Entry(answer, logged))
    /\ tried' = TriedAdd(tried, cur)
    /\ DispatchStoreFrame
    /\ UNCHANGED <<poolSize, sessionKey, reqModel, urlOk, boundAtArrival, boundAtStart>>
    /\ UNCHANGED <<selVars, ioVars>>

\* The caller gets a response: the chain ends.
Return(status) ==
    /\ pc' = "done"
    /\ result' = status
    /\ UNCHANGED <<cur, retryCount, curModel, initBody, restarts, passStart>>

\* executeRequest(next, input, init, rc, triedAccountIndices): a recursion on
\* the same body.
Recurse(next, rc) ==
    /\ pc' = "exec"
    /\ cur' = next
    /\ retryCount' = rc
    /\ UNCHANGED <<result, curModel, initBody, restarts, passStart>>

\* fetch, a mutation: without an account the chain starts on account 0.
StartChainOnFirst(account, map, f) ==
    /\ bindings' = map
    /\ file' = f
    /\ boundAtStart' = IF sessionKey = NoKey THEN Undefined ELSE map[sessionKey]
    /\ pc' = "exec"
    /\ result' = 0
    /\ cur' = IF account = NoAccount THEN 0 ELSE account
    /\ retryCount' = 0
    /\ tried' = {}
    /\ UNCHANGED <<poolVars, storePc, prevFile, lastOp, fresh, sessionKey, reqModel,
                   curModel, initBody, urlOk, hist, passStart, restarts, boundAtArrival>>
    /\ UNCHANGED <<selVars, ioVars>>

\* fetch: resolve the account of the request (getSessionBoundAccount), answer
\* 503 when there is none, else start the chain on it.
StartChain(account, map, f) ==
    /\ bindings' = map
    /\ file' = f
    /\ boundAtStart' = IF sessionKey = NoKey THEN Undefined ELSE map[sessionKey]
    /\ IF SaveToDiskThrows(map, f)
       THEN /\ pc' = "done"
            /\ result' = Raised
            /\ UNCHANGED cur
       ELSE IF account = NoAccount
       THEN /\ pc' = "done"
            /\ result' = 503
            /\ UNCHANGED cur
       ELSE /\ pc' = "exec"
            /\ result' = 0
            /\ cur' = account
    /\ retryCount' = 0
    /\ tried' = {}
    /\ UNCHANGED <<poolVars, storePc, prevFile, lastOp, fresh, sessionKey, reqModel,
                   curModel, initBody, urlOk, hist, passStart, restarts, boundAtArrival>>
    /\ UNCHANGED <<selVars, ioVars>>

\* No session key: the selection strategy alone decides.
FetchNoSession ==
    /\ pc = "start"
    /\ sessionKey = NoKey
    /\ \E account \in GetNextAvailableAccount(reqModel) :
          StartChain(account, bindings, file)

\* A mutation: a bound account that is not available is replaced by a
\* new-session pick, which is bound instead.
FetchBoundIfAvailable ==
    /\ pc = "start"
    /\ sessionKey # NoKey
    /\ bindings[sessionKey] # Undefined
    /\ bindings[sessionKey] \in Accounts
    /\ IF IsAvailable(bindings[sessionKey], reqModel)
       THEN StartChain(bindings[sessionKey], bindings, file)
       ELSE \E account \in GetNextAvailableAccountForNewSession(reqModel) :
               LET bound == IF account = NoAccount THEN bindings
                            ELSE [bindings EXCEPT ![sessionKey] = account]
               IN  StartChain(account, bound, Serialize(bound))

\* The key is bound to an index that resolves to an account: that account.
FetchBound ==
    /\ pc = "start"
    /\ sessionKey # NoKey
    /\ bindings[sessionKey] # Undefined
    /\ bindings[sessionKey] \in Accounts
    /\ StartChain(bindings[sessionKey], bindings, file)

\* A stale binding, a mutation: it is deleted only when a new one replaces it.
FetchStaleKeepsBinding ==
    /\ pc = "start"
    /\ sessionKey # NoKey
    /\ bindings[sessionKey] # Undefined
    /\ bindings[sessionKey] \notin Accounts
    /\ \E account \in GetNextAvailableAccountForNewSession(reqModel) :
          IF account = NoAccount
          THEN StartChain(account, bindings, file)
          ELSE LET bound == [bindings EXCEPT ![sessionKey] = account]
               IN  \E f2 \in SaveOutcomes(bound, file) :
                      StartChain(account, bound, f2)

\* The key is bound to an index that resolves to no account: the binding is
\* deleted (and saved), then a new-session pick is bound (and saved).
FetchStale ==
    /\ pc = "start"
    /\ sessionKey # NoKey
    /\ bindings[sessionKey] # Undefined
    /\ bindings[sessionKey] \notin Accounts
    /\ LET deleted == [bindings EXCEPT ![sessionKey] = Undefined]
       IN  \E account \in GetNextAvailableAccountForNewSession(reqModel) :
           \E f1 \in SaveOutcomes(deleted, file) :
              IF account = NoAccount
              THEN StartChain(account, deleted, f1)
              ELSE LET bound == [deleted EXCEPT ![sessionKey] = account]
                   IN  \E f2 \in SaveOutcomes(bound, f1) :
                          StartChain(account, bound, f2)

\* An unbound key, a mutation: the pick is handed to dispatch and the key is
\* left unbound.
FetchUnboundLeavesUnbound ==
    /\ pc = "start"
    /\ sessionKey # NoKey
    /\ bindings[sessionKey] = Undefined
    /\ \E account \in GetNextAvailableAccountForNewSession(reqModel) :
          StartChain(account, bindings, file)

\* The key is unbound: a new-session pick is bound (and saved).
FetchUnbound ==
    /\ pc = "start"
    /\ sessionKey # NoKey
    /\ bindings[sessionKey] = Undefined
    /\ \E account \in GetNextAvailableAccountForNewSession(reqModel) :
          IF account = NoAccount
          THEN StartChain(account, bindings, file)
          ELSE LET bound == [bindings EXCEPT ![sessionKey] = account]
               IN  \E f \in SaveOutcomes(bound, file) :
                      StartChain(account, bound, f)

\* The credential of the current account validates (or is refreshed).
TokenOkOutcomes == {"valid", "refreshed"}

\* Token invalid, a mutation: the switch uses up retry budget.
TokenInvalidCountsRetry ==
    /\ Enter("token-invalid", TRUE)
    /\ LET rf == AfterEnsureValidToken(cur, "failed")
           next == GetNextAvailableAccountExcluding(rateLimited, rf, tried', NoModel)
       IN  /\ refreshFailed' = rf
           /\ rateLimited' = rateLimited
           /\ IF next # NoAccount /\ next # cur
              THEN Recurse(next, retryCount + 1)
              ELSE Return(401)

\* Token invalid: no dispatch; switch to another available account outside
\* the tried set (no model filter) with the same retryCount, or answer 401.
TokenInvalid ==
    /\ Enter("token-invalid", TRUE)
    /\ LET rf == AfterEnsureValidToken(cur, "failed")
           next == GetNextAvailableAccountExcluding(rateLimited, rf, tried', NoModel)
       IN  /\ refreshFailed' = rf
           /\ rateLimited' = rateLimited
           /\ IF next # NoAccount /\ next # cur
              THEN Recurse(next, retryCount)
              ELSE Return(401)

\* The URL check, a mutation: a failed check moves on to another account.
InvalidUrlTriesNext ==
    /\ Enter("bad-url", TRUE)
    /\ ~urlOk
    /\ \E t \in TokenOkOutcomes :
          LET rf == AfterEnsureValidToken(cur, t)
              next == GetNextAvailableAccountExcluding(rateLimited, rf, tried', NoModel)
          IN  /\ refreshFailed' = rf
              /\ rateLimited' = rateLimited
              /\ IF next # NoAccount /\ next # cur
                 THEN Recurse(next, retryCount)
                 ELSE Return(400)

\* The URL check, a mutation: what validateCodexBackendUrl throws is not
\* caught.
InvalidUrlUncaught ==
    /\ Enter("bad-url", TRUE)
    /\ ~urlOk
    /\ \E t \in TokenOkOutcomes :
          /\ refreshFailed' = AfterEnsureValidToken(cur, t)
          /\ rateLimited' = rateLimited
          /\ Return(Raised)

\* The rewritten URL fails validateCodexBackendUrl: 400, nothing is sent.
InvalidUrl ==
    /\ Enter("bad-url", TRUE)
    /\ ~urlOk
    /\ \E t \in TokenOkOutcomes :
          /\ refreshFailed' = AfterEnsureValidToken(cur, t)
          /\ rateLimited' = rateLimited
          /\ Return(400)

\* Neither the account nor its token carries an account id: 401.
NoAccountId ==
    /\ Enter("no-account-id", TRUE)
    /\ urlOk
    /\ \E t \in TokenOkOutcomes :
          /\ refreshFailed' = AfterEnsureValidToken(cur, t)
          /\ rateLimited' = rateLimited
          /\ Return(401)

\* Upstream 429, a mutation: the same account is retried as it is.
Answer429RetrySame ==
    /\ Enter("429", TRUE)
    /\ urlOk
    /\ \E t \in TokenOkOutcomes :
          /\ refreshFailed' = AfterEnsureValidToken(cur, t)
          /\ rateLimited' = MarkRateLimited(cur, curModel)
          /\ Recurse(cur, retryCount)

\* Upstream 429, a mutation: the cool-down is not recorded.
Answer429Unmarked ==
    /\ Enter("429", TRUE)
    /\ urlOk
    /\ \E t \in TokenOkOutcomes :
          LET rf == AfterEnsureValidToken(cur, t)
              next == IF RetryBudgetLeft(retryCount)
                      THEN GetNextAvailableAccountExcluding(rateLimited, rf, tried', curModel)
                      ELSE NoAccount
          IN  /\ refreshFailed' = rf
              /\ rateLimited' = rateLimited
              /\ IF next # NoAccount /\ next # cur
                 THEN Recurse(next, retryCount + 1)
                 ELSE Return(HandleErrorStatus("429"))

\* Upstream 429: record the cool-down, then fail over while the retry budget
\* lasts and an untried available account exists; else surface the 429.
Answer429 ==
    /\ Enter("429", TRUE)
    /\ urlOk
    /\ \E t \in TokenOkOutcomes :
          LET rf == AfterEnsureValidToken(cur, t)
              rl == MarkRateLimited(cur, curModel)
              next == IF RetryBudgetLeft(retryCount)
                      THEN GetNextAvailableAccountExcluding(rl, rf, tried', curModel)
                      ELSE NoAccount
          IN  /\ refreshFailed' = rf
              /\ rateLimited' = rl
              /\ IF next # NoAccount /\ next # cur
                 THEN Recurse(next, retryCount + 1)
                 ELSE Return(HandleErrorStatus("429"))

\* Upstream 401, a mutation: the same account is tried again.
Answer401RetrySame ==
    /\ Enter("401", TRUE)
    /\ urlOk
    /\ \E t \in TokenOkOutcomes :
          /\ refreshFailed' = [AfterEnsureValidToken(cur, t) EXCEPT ![cur] = TRUE]
          /\ rateLimited' = rateLimited
          /\ Recurse(cur, retryCount + 1)

\* Upstream 401, a mutation: a failover counts as two retries.
Answer401CountsTwice ==
    /\ Enter("401", TRUE)
    /\ urlOk
    /\ \E t \in TokenOkOutcomes :
          LET rf == [AfterEnsureValidToken(cur, t) EXCEPT ![cur] = TRUE]
              next == GetNextAvailableAccountExcluding(rateLimited, rf, tried', curModel)
          IN  /\ refreshFailed' = rf
              /\ rateLimited' = rateLimited
              /\ IF next # NoAccount /\ next # cur
                 THEN Recurse(next, retryCount + 2)
                 ELSE Return(HandleErrorStatus("401"))

\* Upstream 401, a mutation: the failover keeps the retry count.
Answer401KeepsRetryCount ==
    /\ Enter("401", TRUE)
    /\ urlOk
    /\ \E t \in TokenOkOutcomes :
          LET rf == [AfterEnsureValidToken(cur, t) EXCEPT ![cur] = TRUE]
              next == GetNextAvailableAccountExcluding(rateLimited, rf, tried', curModel)
          IN  /\ refreshFailed' = rf
              /\ rateLimited' = rateLimited
              /\ IF next # NoAccount /\ next # cur
                 THEN Recurse(next, retryCount)
                 ELSE Return(HandleErrorStatus("401"))

\* Upstream 401: mark the account refresh-failed, fail over to an untried
\* available account if there is one; else surface the 401.
Answer401 ==
    /\ Enter("401", TRUE)
    /\ urlOk
    /\ \E t \in TokenOkOutcomes :
          LET rf == [AfterEnsureValidToken(cur, t) EXCEPT ![cur] = TRUE]
              next == GetNextAvailableAccountExcluding(rateLimited, rf, tried', curModel)
          IN  /\ refreshFailed' = rf
              /\ rateLimited' = rateLimited
              /\ IF next # NoAccount /\ next # cur
                 THEN Recurse(next, retryCount + 1)
                 ELSE Return(HandleErrorStatus("401"))

\* Upstream 400 with the model-unsupported signature, but writing
\* last-400-error.json throws inside the try: the catch surfaces the 400.
ModelUnsupportedLogFails ==
    /\ Enter("400u", FALSE)
    /\ urlOk
    /\ \E t \in TokenOkOutcomes :
          /\ refreshFailed' = AfterEnsureValidToken(cur, t)
          /\ rateLimited' = rateLimited
          /\ Return(HandleErrorStatus("400u"))

\* Model-unsupported 400 on a body without a model: surfaced.
ModelUnsupportedNoModel ==
    /\ Enter("400u", TRUE)
    /\ urlOk
    /\ curModel = NoModel
    /\ \E t \in TokenOkOutcomes :
          /\ refreshFailed' = AfterEnsureValidToken(cur, t)
          /\ rateLimited' = rateLimited
          /\ Return(HandleErrorStatus("400u"))

\* Model-unsupported 400, step 1, a mutation: the switch excludes only the
\* rejecting account, not the accounts tried before it.
ModelUnsupportedSwitchToTried ==
    /\ Enter("400u", TRUE)
    /\ urlOk
    /\ curModel # NoModel
    /\ \E t \in TokenOkOutcomes :
          LET rf == AfterEnsureValidToken(cur, t)
              next == GetNextAvailableAccountExcluding(rateLimited, rf, {cur}, curModel)
          IN  /\ next # NoAccount
              /\ refreshFailed' = rf
              /\ rateLimited' = rateLimited
              /\ Recurse(next, retryCount)

\* Model-unsupported 400, step 1: another untried account available for the
\* model exists; switch to it with the same retryCount.
ModelUnsupportedSwitch ==
    /\ Enter("400u", TRUE)
    /\ urlOk
    /\ curModel # NoModel
    /\ \E t \in TokenOkOutcomes :
          LET rf == AfterEnsureValidToken(cur, t)
              next == GetNextAvailableAccountExcluding(rateLimited, rf, tried', curModel)
          IN  /\ next # NoAccount
              /\ refreshFailed' = rf
              /\ rateLimited' = rateLimited
              /\ Recurse(next, retryCount)

\* The fallback restart, a mutation: retryCount is 0 after every restart.
ModelFallbackFromZero ==
    /\ pc = "exec"
    /\ urlOk
    /\ curModel # NoModel
    /\ \E t \in TokenOkOutcomes :
          LET rf == AfterEnsureValidToken(cur, t)
              next == GetNextAvailableAccountExcluding(rateLimited, rf,
                                                       TriedAdd(tried, cur), curModel)
              fallbackModel == ModelFallbacks(curModel)
          IN  /\ next = NoAccount
              /\ fallbackModel # NoModel
              /\ refreshFailed' = rf
              /\ rateLimited' = rateLimited
              /\ \E fallbackAccount \in GetNextAvailableAccountIn(rateLimited, rf, fallbackModel) :
                    IF fallbackAccount # NoAccount
                    THEN cur' = fallbackAccount /\ retryCount' = 0
                    ELSE cur' = cur /\ retryCount' = 0
              /\ tried' = {}
              /\ curModel' = FallbackBodyModel(curModel, fallbackModel)
              /\ initBody' = ModifiedInit(initBody, fallbackModel)
    /\ hist' = Append(hist, Entry("400u", TRUE))
    /\ passStart' = Len(hist')
    /\ restarts' = restarts + 1
    /\ pc' = "exec"
    /\ DispatchStoreFrame
    /\ UNCHANGED <<poolSize, sessionKey, reqModel, urlOk, boundAtArrival, boundAtStart,
                   result>>
    /\ UNCHANGED <<selVars, ioVars>>

\* Model-unsupported 400, step 2: no account is left and a fallback model is
\* configured; restart the chain with the fallback model: on an account
\* available for it with retryCount 0, else on the current account with
\* retryCount + 1, in both cases with a new tried set.
ModelFallback ==
    /\ pc = "exec"
    /\ urlOk
    /\ curModel # NoModel
    /\ \E t \in TokenOkOutcomes :
          LET rf == AfterEnsureValidToken(cur, t)
              next == GetNextAvailableAccountExcluding(rateLimited, rf,
                                                       TriedAdd(tried, cur), curModel)
              fallbackModel == ModelFallbacks(curModel)
          IN  /\ next = NoAccount
              /\ fallbackModel # NoModel
              /\ refreshFailed' = rf
              /\ rateLimited' = rateLimited
              /\ \E fallbackAccount \in GetNextAvailableAccountIn(rateLimited, rf, fallbackModel) :
                    IF fallbackAccount # NoAccount
                    THEN cur' = fallbackAccount /\ retryCount' = 0
                    ELSE cur' = cur /\ retryCount' = retryCount + 1
              /\ tried' = {}
              /\ curModel' = FallbackBodyModel(curModel, fallbackModel)
              /\ initBody' = ModifiedInit(initBody, fallbackModel)
    /\ hist' = Append(hist, Entry("400u", TRUE))
    /\ passStart' = Len(hist')
    /\ restarts' = restarts + 1
    /\ pc' = "exec"
    /\ DispatchStoreFrame
    /\ UNCHANGED <<poolSize, sessionKey, reqModel, urlOk, boundAtArrival, boundAtStart,
                   result>>
    /\ UNCHANGED <<selVars, ioVars>>

\* Model-unsupported 400, no account left and no fallback configured.
ModelUnsupportedNoFallback ==
    /\ Enter("400u", TRUE)
    /\ urlOk
    /\ curModel # NoModel
    /\ \E t \in TokenOkOutcomes :
          LET rf == AfterEnsureValidToken(cur, t)
              next == GetNextAvailableAccountExcluding(rateLimited, rf, tried', curModel)
          IN  /\ next = NoAccount
              /\ ModelFallbacks(curModel) = NoModel
              /\ refreshFailed' = rf
              /\ rateLimited' = rateLimited
              /\ Return(HandleErrorStatus("400u"))

\* Any other non-success answer, a mutation: a usage-limit 404 is handled as
\* a 429 is (cool-down, failover).
AnswerOtherErrorUsageLimitAs429 ==
    \E u \in {"400x", "404ul", "404", "500"} :
       /\ Enter(u, TRUE)
       /\ urlOk
       /\ \E t \in TokenOkOutcomes :
             LET rf == AfterEnsureValidToken(cur, t)
                 rl == IF u = "404ul" THEN MarkRateLimited(cur, curModel)
                       ELSE rateLimited
                 next == IF u = "404ul" /\ RetryBudgetLeft(retryCount)
                         THEN GetNextAvailableAccountExcluding(rl, rf, tried', curModel)
                         ELSE NoAccount
             IN  /\ refreshFailed' = rf
                 /\ rateLimited' = rl
                 /\ IF next # NoAccount /\ next # cur
                    THEN Recurse(next, retryCount + 1)
                    ELSE Return(HandleErrorStatus(u))

\* Any other non-success answer, a mutation: a server error moves the chain
\* to another account.
AnswerOtherErrorRetries500 ==
    \E u \in {"400x", "404ul", "404", "500"} :
       /\ Enter(u, TRUE)
       /\ urlOk
       /\ \E t \in TokenOkOutcomes :
             LET rf == AfterEnsureValidToken(cur, t)
                 next == IF u = "500"
                         THEN GetNextAvailableAccountExcluding(rateLimited, rf, tried',
                                                               curModel)
                         ELSE NoAccount
             IN  /\ refreshFailed' = rf
                 /\ rateLimited' = rateLimited
                 /\ IF next # NoAccount /\ next # cur
                    THEN Recurse(next, retryCount)
                    ELSE Return(HandleErrorStatus(u))

\* Any other non-success answer: surfaced through handleErrorResponse.
AnswerOtherError ==
    \E u \in {"400x", "404ul", "404", "500"} :
       /\ Enter(u, TRUE)
       /\ urlOk
       /\ \E t \in TokenOkOutcomes :
             /\ refreshFailed' = AfterEnsureValidToken(cur, t)
             /\ rateLimited' = rateLimited
             /\ Return(HandleErrorStatus(u))

\* The request could not be sent or no answer came back: the promise of
\* the platform's fetch rejects, and nothing around the call catches it.
TransportFailure ==
    /\ Enter("transport-failure", TRUE)
    /\ urlOk
    /\ \E t \in TokenOkOutcomes :
          /\ refreshFailed' = AfterEnsureValidToken(cur, t)
          /\ rateLimited' = rateLimited
          /\ Return(Raised)

\* Success: handleSuccessResponse.
AnswerSuccess ==
    /\ Enter("200", TRUE)
    /\ urlOk
    /\ \E t \in TokenOkOutcomes :
          /\ refreshFailed' = AfterEnsureValidToken(cur, t)
          /\ rateLimited' = rateLimited
          /\ Return(200)

(* ----------------------- the dispatch specification -------------------- *)

\* Pool states a running process can be in: 1..MaxAccounts accounts, with any
\* cool-downs scoped to a model and any refresh-failed marks on pools of up
\* to MaxMarkedAccounts accounts, and no marks (as constructed) on larger ones.
PoolInit ==
    /\ poolSize \in 1..MaxAccounts
    /\ rateLimited \in [AllAccounts -> SUBSET Models]
    /\ refreshFailed \in [AllAccounts -> BOOLEAN]
    /\ \A a \in AllAccounts :
          (a >= poolSize \/ poolSize > MaxMarkedAccounts)
             => rateLimited[a] = {} /\ ~refreshFailed[a]

\* The runs of selections: none yet, and a run extended by one selection.
NoRun == [fn |-> "none", model |-> NoModel, len |-> 0]
Extend(fn, m) ==
    [fn |-> fn, model |-> m,
     len |-> IF run.fn = fn /\ run.model = m THEN run.len + 1 ELSE 1]

\* No selection was made through the manager yet.
SelIdle ==
    /\ cursor = NoAccount
    /\ picks = <<>>
    /\ strategy = "sticky"
    /\ run = NoRun

\* No response is being handled.
IoIdle ==
    /\ response = Thrown
    /\ isStreaming = FALSE
    /\ returned = NotReturned
    /\ retryAfter = NoCooldown
    /\ inflight = [r \in Requests |-> [at |-> "none", key |-> NoKey, account |-> NoAccount]]

ObsInit ==
    /\ hist = <<>>
    /\ passStart = 0
    /\ restarts = 0
    /\ boundAtArrival = IF sessionKey = NoKey THEN Undefined ELSE bindings[sessionKey]
    /\ boundAtStart = boundAtArrival

Init ==
    /\ PoolInit
    /\ sessionKey \in {NoKey, "s1"}
    /\ \E b \in {Undefined} \cup 0..poolSize :
          /\ sessionKey = NoKey => b = Undefined
          /\ bindings = [EmptyMap EXCEPT !["s1"] = b]
    /\ file = IF bindings = EmptyMap THEN Absent ELSE Serialize(bindings)
    /\ storePc = "idle"
    /\ prevFile = file
    /\ lastOp = NoOp
    /\ fresh = NoFresh
    /\ pc = "start"
    /\ reqModel \in {ModelX, NoModel}
    /\ curModel = reqModel
    /\ initBody = CallerBody
    /\ urlOk \in BOOLEAN
    /\ cur = NoAccount
    /\ retryCount = 0
    /\ tried = {}
    /\ result = 0
    /\ ObsInit
    /\ SelIdle
    /\ IoIdle

Next ==
    \/ FetchNoSession
    \/ FetchBound
    \/ FetchStale
    \/ FetchUnbound
    \/ TokenInvalid
    \/ InvalidUrl
    \/ NoAccountId
    \/ Answer429
    \/ Answer401
    \/ ModelUnsupportedLogFails
    \/ ModelUnsupportedNoModel
    \/ ModelUnsupportedSwitch
    \/ ModelFallback
    \/ ModelUnsupportedNoFallback
    \/ AnswerOtherError
    \/ TransportFailure
    \/ AnswerSuccess

Spec == Init /\ [][Next]_vars

(* ---------------- the dispatch while cool-downs run out ---------------- *)

\* Time passes while the request is in flight: a cool-down of an account is
\* over, and the account is available again for what it covered.
CooldownExpires ==
    /\ pc = "exec"
    /\ \E a \in Accounts, m \in Models \cup {NoModel} :
          /\ m \in rateLimited[a]
          /\ rateLimited' = [rateLimited EXCEPT ![a] = @ \ {m}]
    /\ UNCHANGED <<poolSize, refreshFailed>>
    /\ UNCHANGED <<storeVars, reqVars, obsVars, selVars, ioVars>>

ClockNext == Next \/ CooldownExpires

SpecClock == Init /\ [][ClockNext]_vars

(* ------------------- the binding store specification ------------------- *)

\* Files a process can find at start: none, anything another program left
\* there, or a document with any keys and values.
InitialFiles ==
    {Absent, Malformed, Unreadable, NoBindings}
        \cup {Doc(d) : d \in [FileKeys -> JVals \cup {JMissing}]}

\* All actions but freshLoad invalidate what a fresh instance read earlier.
StoreFrame == UNCHANGED <<poolVars, reqVars, obsVars, selVars, ioVars>>

\* set(sessionKey, accountIndex): the Map is updated, then saveToDisk begins.
StoreSet(k, v) ==
    /\ storePc = "idle"
    /\ bindings' = [bindings EXCEPT ![k] = v]
    /\ storePc' = "saving"
    /\ prevFile' = file
    /\ lastOp' = [op |-> "set", key |-> k, val |-> v, persisted |-> FALSE]
    /\ fresh' = NoFresh
    /\ UNCHANGED file
    /\ StoreFrame

\* delete(sessionKey) of a bound key: removed, then saveToDisk begins.
StoreDelete(k) ==
    /\ storePc = "idle"
    /\ bindings[k] # Undefined
    /\ bindings' = [bindings EXCEPT ![k] = Undefined]
    /\ storePc' = "saving"
    /\ prevFile' = file
    /\ lastOp' = [op |-> "delete", key |-> k, val |-> Undefined, persisted |-> FALSE]
    /\ fresh' = NoFresh
    /\ UNCHANGED file
    /\ StoreFrame

\* delete(sessionKey) of an unbound key: Map.delete is false, nothing is saved.
StoreDeleteUnbound(k) ==
    /\ storePc = "idle"
    /\ bindings[k] = Undefined
    /\ lastOp' = [op |-> "delete-unbound", key |-> k, val |-> Undefined,
                  persisted |-> FALSE]
    /\ fresh' = NoFresh
    /\ UNCHANGED <<bindings, file, storePc, prevFile>>
    /\ StoreFrame

\* saveToDisk: mkdirSync or the open of writeFileSync throws; caught.
SaveOpenFails ==
    /\ storePc = "saving"
    /\ storePc' = "idle"
    /\ fresh' = NoFresh
    /\ UNCHANGED <<bindings, file, prevFile, lastOp>>
    /\ StoreFrame

\* saveToDisk: writeFileSync opens the binding file itself for writing,
\* which truncates it.
SaveTruncate ==
    /\ storePc = "saving"
    /\ file' = Truncated
    /\ storePc' = "truncated"
    /\ fresh' = NoFresh
    /\ UNCHANGED <<bindings, prevFile, lastOp>>
    /\ StoreFrame

\* saveToDisk: the write throws (disk full); caught.
SaveWriteFails ==
    /\ storePc = "truncated"
    /\ storePc' = "idle"
    /\ prevFile' = file
    /\ fresh' = NoFresh
    /\ UNCHANGED <<bindings, file, lastOp>>
    /\ StoreFrame

\* saveToDisk: the payload is written in full.
SaveComplete ==
    /\ storePc = "truncated"
    /\ file' = Serialize(bindings)
    /\ prevFile' = file'
    /\ storePc' = "idle"
    /\ lastOp' = [lastOp EXCEPT !.persisted = TRUE]
    /\ fresh' = NoFresh
    /\ UNCHANGED bindings
    /\ StoreFrame

\* The process dies, wherever it is.
Crash ==
    /\ storePc # "crashed"
    /\ storePc' = "crashed"
    /\ bindings' = EmptyMap
    /\ lastOp' = NoOp
    /\ fresh' = NoFresh
    /\ UNCHANGED <<file, prevFile>>
    /\ StoreFrame

\* A new process: new SessionBindingStore(); loadFromDisk().
Restart ==
    /\ storePc = "crashed"
    /\ bindings' = LoadFromDisk(file).map
    /\ storePc' = "idle"
    /\ prevFile' = file
    /\ fresh' = NoFresh
    /\ UNCHANGED <<file, lastOp>>
    /\ StoreFrame

\* A fresh SessionBindingStore on the same file calls loadFromDisk.
FreshLoad ==
    /\ ~fresh.loaded
    /\ fresh' = [loaded |-> TRUE,
                 raised |-> LoadFromDisk(file).raised,
                 map |-> LoadFromDisk(file).map,
                 from |-> file.kind]
    /\ UNCHANGED <<bindings, file, storePc, prevFile, lastOp>>
    /\ StoreFrame

StoreInit ==
    /\ file \in InitialFiles
    /\ bindings = LoadFromDisk(file).map
    /\ storePc = "idle"
    /\ prevFile = file
    /\ lastOp = NoOp
    /\ fresh = NoFresh
    /\ poolSize = 1
    /\ rateLimited = [a \in AllAccounts |-> {}]
    /\ refreshFailed = [a \in AllAccounts |-> FALSE]
    /\ pc = "done"
    /\ sessionKey = NoKey
    /\ reqModel = NoModel
    /\ curModel = NoModel
    /\ initBody = CallerBody
    /\ urlOk = TRUE
    /\ cur = NoAccount
    /\ retryCount = 0
    /\ tried = {}
    /\ result = 0
    /\ ObsInit
    /\ SelIdle
    /\ IoIdle

StoreNext ==
    \/ \E k \in SessionKeys, v \in 0..MaxStoreIndex : StoreSet(k, v)
    \/ \E k \in SessionKeys : StoreDelete(k)
    \/ \E k \in SessionKeys : StoreDeleteUnbound(k)
    \/ SaveOpenFails
    \/ SaveTruncate
    \/ SaveWriteFails
    \/ SaveComplete
    \/ Crash
    \/ Restart
    \/ FreshLoad

SpecStore == StoreInit /\ [][StoreNext]_vars

(* -------------------- the response handling specification -------------- *)

\* Statuses for which response.ok holds, and the others the backend sends.
OkStatuses == {200, 201}
ErrorStatuses == {400, 401, 404, 429, 500}

\* Upstream responses: a success with an event stream (or no body) under
\* any content type, or an error document.
UpstreamResponses ==
    {Resp(st, ct, b) : st \in OkStatuses, ct \in ContentTypes,
                       b \in {TextBody(x) : x \in Streams} \cup {NoBody}}
        \cup {Resp(st, JsonType, ErrorBody(c)) : st \in ErrorStatuses, c \in ErrorCodes}

ResponseFrame == UNCHANGED <<poolVars, storeVars, reqVars, obsVars, selVars,
                             response, isStreaming, retryAfter, inflight>>

\* return await handleSuccessResponse(response, isStreaming)
HandleSuccess ==
    /\ returned = NotReturned
    /\ response.status \in OkStatuses
    /\ returned' = [by |-> "handleSuccessResponse",
                    resp |-> HandleSuccessResponse(response, isStreaming)]
    /\ ResponseFrame

\* if (!response.ok) return await handleErrorResponse(response)
HandleError ==
    /\ returned = NotReturned
    /\ response.status \notin OkStatuses
    /\ returned' = [by |-> "handleErrorResponse", resp |-> HandleErrorResponse(response)]
    /\ ResponseFrame

\* convertSseToJson(response, response.headers) on a successful response.
ConvertStream ==
    /\ returned = NotReturned
    /\ response.status \in OkStatuses
    /\ returned' = [by |-> "convertSseToJson",
                    resp |-> ConvertSseToJson(response, response.ctype)]
    /\ ResponseFrame

ResponseInit ==
    /\ response \in UpstreamResponses
    /\ isStreaming \in BOOLEAN
    /\ returned = NotReturned
    /\ retryAfter = NoCooldown
    /\ inflight = [r \in Requests |-> [at |-> "none", key |-> NoKey, account |-> NoAccount]]
    /\ file = Absent
    /\ bindings = EmptyMap
    /\ storePc = "idle"
    /\ prevFile = file
    /\ lastOp = NoOp
    /\ fresh = NoFresh
    /\ poolSize = 1
    /\ rateLimited = [a \in AllAccounts |-> {}]
    /\ refreshFailed = [a \in AllAccounts |-> FALSE]
    /\ pc = "done"
    /\ sessionKey = NoKey
    /\ reqModel = NoModel
    /\ curModel = NoModel
    /\ initBody = CallerBody
    /\ urlOk = TRUE
    /\ cur = NoAccount
    /\ retryCount = 0
    /\ tried = {}
    /\ result = 0
    /\ ObsInit
    /\ SelIdle

ResponseNext ==
    \/ HandleSuccess
    \/ HandleError
    \/ ConvertStream

SpecResponse == ResponseInit /\ [][ResponseNext]_vars

(* ---------------------- the selection specification -------------------- *)

\* Models a selection is made for (none, or the requested model).
SelModels == {NoModel, ModelX}

\* Sticky strategy, a mutation: the lowest-index available account, whatever
\* the current account is.
StickyPickLowest(c, m) ==
    IF AvailableAccounts(m) = {} THEN NoAccount ELSE Lowest(AvailableAccounts(m))

\* Sticky strategy: the current account while it is available for the model;
\* else the lowest-index available account, null when there is none.
StickyPick(c, m) ==
    IF c # NoAccount /\ IsAvailable(c, m) THEN c
    ELSE IF AvailableAccounts(m) = {} THEN NoAccount
    ELSE Lowest(AvailableAccounts(m))

\* Round-robin, a mutation: the account returned last is returned again
\* while it is available.
RoundRobinPickStaying(c, m) ==
    LET ok == AvailableAccounts(m)
    IN  IF ok = {} THEN NoAccount
        ELSE IF c \in ok THEN c
        ELSE Lowest(ok)

\* Round-robin, a mutation: the cursor moves one index on, whether or not
\* the account there was the one returned.
RoundRobinPickFromSlot(c, m) ==
    LET ok == AvailableAccounts(m)
        slot == IF c = NoAccount THEN 0 ELSE (c + 1) % poolSize
    IN  IF ok = {} THEN NoAccount
        ELSE IF slot \in ok THEN slot
        ELSE Lowest(ok)

\* Round-robin: the first available account after the one returned last, in
\* index order with wrap-around (from index 0 at the start); null when no
\* account is available.
RoundRobinPick(c, m) ==
    LET ok == AvailableAccounts(m)
        later == {a \in ok : a > c}
    IN  IF ok = {} THEN NoAccount
        ELSE IF later # {} THEN Lowest(later)
        ELSE Lowest(ok)

SelectFrame == UNCHANGED <<storeVars, reqVars, obsVars, ioVars, poolSize,
                           refreshFailed, strategy>>

\* A selection through the manager: the account returned becomes the current
\* one.
Select(fn, m, account) ==
    /\ Len(picks) < MaxPicks
    /\ picks' = Append(picks, account)
    /\ cursor' = IF account = NoAccount THEN cursor ELSE account
    /\ run' = Extend(fn, m)
    /\ UNCHANGED rateLimited
    /\ SelectFrame

\* getNextAvailableAccount(model?) under the sticky strategy.
SelectSticky(m) ==
    /\ strategy = "sticky"
    /\ Select("next", m, StickyPick(cursor, m))

\* getNextAvailableAccount(model?) under the round-robin strategy.
SelectRoundRobin(m) ==
    /\ strategy = "round-robin"
    /\ Select("next", m, RoundRobinPick(cursor, m))

\* getNextAvailableAccount(model?) under the hybrid strategy, within a
\* session: sticky.
SelectHybrid(m) ==
    /\ strategy = "hybrid"
    /\ cursor # NoAccount
    /\ Select("next", m, StickyPick(cursor, m))

\* The first selection of a new session, a mutation: the lowest-index
\* available account, as a fresh sticky manager would return.
SelectNewSessionFromLowest(m) ==
    /\ strategy = "hybrid"
    /\ Select("new", m, StickyPick(NoAccount, m))

\* The first selection of a brand-new session under the hybrid strategy
\* (getNextAvailableAccountForNewSession, or the first selection of a new
\* manager on the persisted pool): the initial account rotates.
SelectNewSession(m) ==
    /\ strategy = "hybrid"
    /\ Select("new", m, RoundRobinPick(cursor, m))

\* markRateLimited(account, retryAfterMs, model?) between two selections.
SelMarkRateLimited(a, m) ==
    /\ m \notin rateLimited[a]
    /\ rateLimited' = MarkRateLimited(a, m)
    /\ run' = NoRun
    /\ UNCHANGED <<cursor, picks>>
    /\ SelectFrame

\* Time passes: a cool-down of an account is over.
SelCooldownExpires(a, m) ==
    /\ m \in rateLimited[a]
    /\ rateLimited' = [rateLimited EXCEPT ![a] = @ \ {m}]
    /\ run' = NoRun
    /\ UNCHANGED <<cursor, picks>>
    /\ SelectFrame

\* A manager as constructed, with 1..MaxAccounts accounts added.
SelectInit ==
    /\ poolSize \in 1..MaxAccounts
    /\ rateLimited = [a \in AllAccounts |-> {}]
    /\ refreshFailed = [a \in AllAccounts |-> FALSE]
    /\ cursor = NoAccount
    /\ picks = <<>>
    /\ strategy \in {"sticky", "round-robin", "hybrid"}
    /\ run = NoRun
    /\ IoIdle
    /\ file = Absent
    /\ bindings = EmptyMap
    /\ storePc = "idle"
    /\ prevFile = file
    /\ lastOp = NoOp
    /\ fresh = NoFresh
    /\ pc = "done"
    /\ sessionKey = NoKey
    /\ reqModel = NoModel
    /\ curModel = NoModel
    /\ initBody = CallerBody
    /\ urlOk = TRUE
    /\ cur = NoAccount
    /\ retryCount = 0
    /\ tried = {}
    /\ result = 0
    /\ ObsInit

SelectNext ==
    \/ \E m \in SelModels : SelectSticky(m)
    \/ \E m \in SelModels : SelectRoundRobin(m)
    \/ \E m \in SelModels : SelectHybrid(m)
    \/ \E m \in SelModels : SelectNewSession(m)
    \/ \E a \in Accounts, m \in SelModels : SelMarkRateLimited(a, m)
    \/ \E a \in Accounts, m \in SelModels : SelCooldownExpires(a, m)

SpecSelect == SelectInit /\ [][SelectNext]_vars

(* ============== the specification of concurrent requests =============== *)

\* getNextAvailableAccountForNewSession(model?): the initial account of a
\* new session rotates under the hybrid strategy; the other strategies pick
\* as for any request.
NewSessionPick(m) ==
    IF strategy = "sticky" THEN StickyPick(cursor, m) ELSE RoundRobinPick(cursor, m)

\* fetch calls getSessionBoundAccount(sessionKey, model), which runs up to
\* its await: a key bound to an existing account resolves to that account;
\* else a stale binding is deleted, an account is asked for the new
\* session, and the call is suspended.
CallGetSessionBoundAccount(r) ==
    /\ inflight[r].at = "start"
    /\ LET k == inflight[r].key
           b == bindings[k]
       IN  IF b \in Accounts
           THEN /\ inflight' = [inflight EXCEPT ![r].at = "dispatched", ![r].account = b]
                /\ UNCHANGED <<bindings, file, cursor>>
           ELSE LET account == NewSessionPick(reqModel)
                IN  /\ bindings' = [bindings EXCEPT ![k] = Undefined]
                    /\ file' \in IF b = Undefined THEN {file}
                                  ELSE SaveOutcomes(bindings', file)
                    /\ cursor' = IF account = NoAccount THEN cursor ELSE account
                    /\ inflight' = [inflight EXCEPT ![r].at = "awaiting",
                                                     ![r].account = account]
    /\ UNCHANGED <<poolVars, storePc, prevFile, lastOp, fresh, reqVars, obsVars,
                   picks, strategy, run, response, isStreaming, returned, retryAfter>>

\* getSessionBoundAccount resumes after its await: the account it got is
\* bound to the key, and fetch dispatches on it; without an account fetch
\* answers 503.
ResumeGetSessionBoundAccount(r) ==
    /\ inflight[r].at = "awaiting"
    /\ IF inflight[r].account # NoAccount
       THEN /\ bindings' = [bindings EXCEPT ![inflight[r].key] = inflight[r].account]
            /\ file' \in SaveOutcomes(bindings', file)
            /\ inflight' = [inflight EXCEPT ![r].at = "dispatched"]
       ELSE /\ inflight' = [inflight EXCEPT ![r].at = "refused"]
            /\ UNCHANGED <<bindings, file>>
    /\ UNCHANGED <<poolVars, storePc, prevFile, lastOp, fresh, reqVars, obsVars,
                   selVars, response, isStreaming, returned, retryAfter>>

\* Two fetch calls are made in the same turn, each with a session key; the
\* pool has 1..MaxAccounts accounts, of which at most MaxMarkedAccounts are
\* refresh-failed, and the manager has handed out accounts before or not.
ConcurrentInit ==
    /\ poolSize \in 1..MaxAccounts
    /\ rateLimited = [a \in AllAccounts |-> {}]
    /\ \E failed \in SUBSET Accounts :
          /\ Cardinality(failed) <= MaxMarkedAccounts
          /\ refreshFailed = [a \in AllAccounts |-> a \in failed]
    /\ strategy \in {"sticky", "round-robin", "hybrid"}
    /\ cursor \in {NoAccount} \cup Accounts
    /\ picks = <<>>
    /\ run = NoRun
    /\ \E k1 \in SessionKeys, k2 \in SessionKeys :
          inflight = [r \in Requests |->
                        [at |-> "start", key |-> IF r = "r1" THEN k1 ELSE k2,
                         account |-> NoAccount]]
    /\ \E b \in {Undefined} \cup 0..poolSize :
          bindings = [EmptyMap EXCEPT !["s1"] = b]
    /\ file = IF bindings = EmptyMap THEN Absent ELSE Serialize(bindings)
    /\ storePc = "idle"
    /\ prevFile = file
    /\ lastOp = NoOp
    /\ fresh = NoFresh
    /\ response = Thrown
    /\ isStreaming = FALSE
    /\ returned = NotReturned
    /\ retryAfter = NoCooldown
    /\ pc = "done"
    /\ sessionKey = NoKey
    /\ reqModel = NoModel
    /\ curModel = NoModel
    /\ initBody = CallerBody
    /\ urlOk = TRUE
    /\ cur = NoAccount
    /\ retryCount = 0
    /\ tried = {}
    /\ result = 0
    /\ ObsInit

SpecConcurrent ==
    ConcurrentInit /\ [][\E r \in Requests : \/ CallGetSessionBoundAccount(r)
                                            \/ ResumeGetSessionBoundAccount(r)]_vars

(* ================= the specification of the cool-down ================== *)

\* accountManager.markRateLimited(account, retryAfterMs, model)
RecordCooldown ==
    /\ ~retryAfter.computed
    /\ retryAfter' = [retryAfter EXCEPT
                         !.computed = TRUE,
                         !.ms = RetryAfterMs(retryAfter.header, retryAfter.resetTime,
                                             retryAfter.now)]
    /\ UNCHANGED <<poolVars, storeVars, reqVars, obsVars, selVars,
                   response, isStreaming, returned, inflight>>

\* A 429 with any Retry-After header (none, empty, seconds, seconds with a
\* fraction or a unit, an HTTP date, a word) and any body (not JSON, no
\* reset time, a reset time as a number, as a date text or as another
\* text), at any time.
CooldownInit ==
    /\ \E h \in {"absent", "", "0", "2", "2.5", "2s",
                  "Wed, 21 Oct 2026 07:28:00 GMT", "soon"},
          k \in {"unparseable", "absent", "number", "date", "text"},
          at \in {0, 5000, 90000},
          now \in {10000, 60000} :
          /\ k \in {"unparseable", "absent", "text"} => at = 0
          /\ retryAfter = [header |-> h, resetTime |-> [kind |-> k, at |-> at],
                           now |-> now, computed |-> FALSE, ms |-> 0]
    /\ response = Thrown
    /\ isStreaming = FALSE
    /\ returned = NotReturned
    /\ inflight = [r \in Requests |-> [at |-> "none", key |-> NoKey, account |-> NoAccount]]
    /\ file = Absent
    /\ bindings = EmptyMap
    /\ storePc = "idle"
    /\ prevFile = file
    /\ lastOp = NoOp
    /\ fresh = NoFresh
    /\ poolSize = 1
    /\ rateLimited = [a \in AllAccounts |-> {}]
    /\ refreshFailed = [a \in AllAccounts |-> FALSE]
    /\ pc = "done"
    /\ sessionKey = NoKey
    /\ reqModel = NoModel
    /\ curModel = NoModel
    /\ initBody = CallerBody
    /\ urlOk = TRUE
    /\ cur = NoAccount
    /\ retryCount = 0
    /\ tried = {}
    /\ result = 0
    /\ ObsInit
    /\ SelIdle

SpecCooldown == CooldownInit /\ [][RecordCooldown]_vars

(* ================= the specification of the exclusion query ============= *)

\* getNextAvailableAccountExcluding(excluded, model?) applied to a pool: the
\* exclusion set, the model and the answer are kept as executeRequest keeps
\* them (tried indices, model of the attempt, next account).
SelectExcluding(excluded, m) ==
    /\ cur' = GetNextAvailableAccountExcluding(rateLimited, refreshFailed, excluded, m)
    /\ tried' = excluded
    /\ curModel' = m
    /\ pc' = "done"
    /\ UNCHANGED <<poolVars, storeVars, obsVars, selVars, ioVars,
                   sessionKey, reqModel, initBody, urlOk, retryCount, result>>

\* Any pool of 1..MaxAccounts accounts, each with any cool-downs (global or
\* for the model) in force and refresh-failed or not.
ExcludingInit ==
    /\ poolSize \in 1..MaxAccounts
    /\ rateLimited \in [AllAccounts -> SUBSET SelModels]
    /\ refreshFailed \in [AllAccounts -> BOOLEAN]
    /\ \A a \in AllAccounts : a >= poolSize => rateLimited[a] = {} /\ ~refreshFailed[a]
    /\ SelIdle
    /\ IoIdle
    /\ file = Absent
    /\ bindings = EmptyMap
    /\ storePc = "idle"
    /\ prevFile = file
    /\ lastOp = NoOp
    /\ fresh = NoFresh
    /\ pc = "start"
    /\ sessionKey = NoKey
    /\ reqModel = NoModel
    /\ curModel = NoModel
    /\ initBody = CallerBody
    /\ urlOk = TRUE
    /\ cur = NoAccount
    /\ retryCount = 0
    /\ tried = {}
    /\ result = 0
    /\ ObsInit

ExcludingNext ==
    \E excluded \in SUBSET Accounts, m \in SelModels : SelectExcluding(excluded, m)

SpecExcluding == ExcludingInit /\ [][ExcludingNext]_vars

(* ============================ observations ============================= *)

\* Physical attempts (invocations of executeRequest) made with model m.
AttemptsFor(m) == Cardinality({i \in 1..Len(hist) : hist[i].model = m})

\* Invocation i ended in a recursion (every one but a returning last one).
Continued(i) == i < Len(hist) \/ pc = "exec"

\* Recursions taken on the 429 and 401 paths after invocation `from`.
RecursionsAfter(from) ==
    Cardinality({i \in (from + 1)..Len(hist) :
                    Continued(i) /\ hist[i].answer \in {"429", "401"}})

Recursions == RecursionsAfter(0)

PassRecursions == RecursionsAfter(passStart)

\* The status an invocation hands back when it returns instead of recursing.
Yield(e) ==
    CASE e.answer = "200" -> 200
      [] e.answer = "token-invalid" -> 401
      [] e.answer = "no-account-id" -> 401
      [] e.answer = "bad-url" -> 400
      [] e.answer = "transport-failure" -> Raised
      [] OTHER -> HandleErrorStatus(e.answer)

\* Every attempt made so far was answered 429.
Only429 == hist # <<>> /\ \A i \in 1..Len(hist) : hist[i].answer = "429"

\* Indices of the attempts that the upstream rejected as model-unsupported
\* for model m.
Rejections(m) == {i \in 1..Len(hist) : hist[i].model = m /\ hist[i].answer = "400u"}

\* A pool of two accounts, both of which rejected ModelX.
BothRejectX ==
    /\ poolSize = 2
    /\ reqModel = ModelX
    /\ {hist[i].account : i \in Rejections(ModelX)} = {0, 1}

\* Answers after which an invocation may move on to another account.
FailoverAnswers == {"token-invalid", "429", "401", "400u"}

\* The account of the first invocation (the resolved account before it).
FirstAccount == IF hist = <<>> THEN cur ELSE hist[1].account

\* The request carries a session key that was bound to an account of the
\* pool when fetch was called.
BoundLive == sessionKey # NoKey /\ boundAtArrival \in Accounts

(* ======================= properties of the dispatch ==================== *)

\* The same program when every awaited call (token refresh, upstream fetch)
\* settles: the async chain then takes its next step whenever it has one.
LiveSpec == Spec /\ WF_vars(Next)

\* C1: for every pool size N >= 1, a logical request whose physical attempts
\* are all answered 429 makes at most N attempts (fewer than N while another
\* attempt is still to come) and, once ended, has returned the 429.
C1_AllRateLimitedEndsWithin_N ==
    Only429 =>
        /\ Len(hist) <= poolSize
        /\ pc = "exec" => Len(hist) < poolSize
        /\ pc = "done" => result = 429

C1_Witness ==
    /\ pc = "done"
    /\ Only429
    /\ poolSize >= 2
    /\ Len(hist) = poolSize
    /\ result = 429

\* C2: whatever the token validations and the upstream answer, a logical
\* request makes at most poolSize attempts with the requested model and at
\* most poolSize with the fallback model, and it eventually returns.
C2_TerminatesWithinTwoPasses ==
    /\ [](/\ \A m \in Scopes : AttemptsFor(m) <= poolSize
          /\ Len(hist) <= 2 * poolSize)
    /\ <>(pc = "done")

C2_Witness ==
    /\ pc = "done"
    /\ poolSize >= 2
    /\ AttemptsFor(ModelX) = poolSize
    /\ AttemptsFor(ModelY) = poolSize

\* C3 as stated: with 2 accounts that both reject ModelX and the fallback
\* ModelY, the request makes at most 2 attempts for ModelX, then exactly one
\* for ModelY, and returns what that attempt yields.  Stated for the requests
\* whose every attempt is dispatched (all tokens valid) and whose
\* rejections are handled to the end (the diagnostic writes succeed).
C3_ExactlyOneFallbackAttempt ==
    (/\ BothRejectX
     /\ pc = "done"
     /\ \A i \in 1..Len(hist) : hist[i].answer \in Upstream /\ hist[i].logged) =>
        /\ AttemptsFor(ModelX) <= 2
        /\ AttemptsFor(ModelY) = 1
        /\ result = Yield(hist[Len(hist)])

\* C3, amended: with 2 accounts that both reject ModelX and the fallback
\* ModelY, the request makes 2 attempts for ModelX and then at most 2 for
\* ModelY: none only when the diagnostic write of the second rejection threw,
\* a second one only after a first that ended in a failover; it returns what
\* its last attempt yields.
C3_FallbackPassIsAChain ==
    (BothRejectX /\ pc = "done") =>
        /\ AttemptsFor(ModelX) = 2
        /\ AttemptsFor(ModelY) <= 2
        /\ AttemptsFor(ModelY) = 0 <=> ~hist[2].logged
        /\ AttemptsFor(ModelY) = 2 => hist[3].answer \in FailoverAnswers
        /\ result = Yield(hist[Len(hist)])

C3_Witness ==
    /\ BothRejectX
    /\ pc = "done"
    /\ AttemptsFor(ModelY) = 2
    /\ hist[3].answer = "429"
    /\ result = 200

C6_BoundKeyGetsBoundAccount ==
    (BoundLive /\ pc # "start") =>
        /\ FirstAccount = boundAtArrival
        /\ bindings[sessionKey] = boundAtArrival

C6_Witness ==
    /\ BoundLive
    /\ pc = "done"
    /\ Len(hist) = 1
    /\ hist[1].account = boundAtArrival
    /\ hist[1].answer = "200"
    /\ ~IsAvailable(boundAtArrival, reqModel)
    /\ AvailableAccounts(reqModel) # {}

\* C7: no step of the dispatch chain writes the binding store or its file,
\* and from the start of dispatch on the session key is bound as it was
\* then, whichever account produces the response.
C7_DispatchLeavesBindings ==
    /\ []((pc # "start" /\ sessionKey # NoKey) => bindings[sessionKey] = boundAtStart)
    /\ [][pc = "exec" => (bindings' = bindings /\ file' = file)]_vars

C7_Witness ==
    /\ pc = "done"
    /\ sessionKey # NoKey
    /\ Len(hist) >= 2
    /\ hist[Len(hist)].account # boundAtStart
    /\ result = 200
    /\ bindings[sessionKey] = boundAtStart

(* ====================== properties of the binding store ================ *)

\* C8: after set(key, K) has been saved, a fresh store on the same file
\* loads K for the key; after delete(key) has been saved, it loads nothing
\* for the key; in both cases it loads the whole Map of the writing store.
C8_RoundTrip ==
    (fresh.loaded /\ lastOp.persisted) =>
        /\ lastOp.op = "set" => fresh.map[lastOp.key] = lastOp.val
        /\ lastOp.op = "delete" => fresh.map[lastOp.key] = Undefined
        /\ fresh.map = bindings

C8_Witness ==
    /\ fresh.loaded
    /\ lastOp.persisted
    /\ lastOp.op = "set"
    /\ lastOp.val = 0
    /\ fresh.map[lastOp.key] = 0
    /\ \E k \in SessionKeys : fresh.map[k] = Undefined

\* C9: at every instant the binding file holds the complete content it had
\* before the save in progress, or the complete new document.
C9_SaveIsAtomic == file = prevFile \/ file = Serialize(bindings)

\* C10: loadFromDisk never raises, and on a file that is absent, unreadable,
\* not JSON or without a bindings object it leaves the store empty.
C10_LoadNeverRaises ==
    fresh.loaded =>
        /\ ~fresh.raised
        /\ fresh.from # "doc" => fresh.map = EmptyMap

C10_Witness ==
    /\ fresh.loaded
    /\ fresh.from = "malformed"
    /\ ~fresh.raised
    /\ fresh.map = EmptyMap

(* ================== properties of failed binding writes ================ *)

\* fetch changed the binding of the request's session key (set or delete was
\* called) and the file does not hold the new Map: the write failed.
BindingWriteFailed ==
    /\ pc # "start"
    /\ sessionKey # NoKey
    /\ boundAtStart # boundAtArrival
    /\ file # Serialize(bindings)

\* C11: when the disk write of set or delete fails during fetch, fetch does
\* not raise, the Map holds the mutation (the key is bound to the account the
\* chain starts on, or unbound when there is none), and the request goes on:
\* to the 503 when no account was found, to the dispatch chain otherwise.
C11_FailedWriteIsSwallowed ==
    BindingWriteFailed =>
        /\ ~(result = Raised /\ hist = <<>>)
        /\ bindings[sessionKey] = FirstAccount
        /\ FirstAccount = NoAccount => (pc = "done" /\ result = 503)
        /\ FirstAccount # NoAccount => (pc = "exec" \/ hist # <<>>)

C11_Witness ==
    /\ BindingWriteFailed
    /\ boundAtArrival = Undefined
    /\ file = Truncated
    /\ pc = "done"
    /\ result = 200
    /\ bindings[sessionKey] = hist[1].account

(* ==================== properties of the URL validation ================= *)

\* C12 as stated: a dispatch chain whose rewritten URL fails validation ends
\* with the 400 of the URL check, after a single invocation (no other account
\* is tried) that sent nothing.
C12_InvalidUrlAlways400 ==
    (~urlOk /\ pc = "done" /\ hist # <<>>) =>
        /\ result = 400
        /\ Len(hist) = 1
        /\ hist[1].answer = "bad-url"

\* C12, amended: for a request whose rewritten URL fails validation nothing
\* is ever sent to the backend; the first invocation whose credential
\* validates returns the 400 and is the last one; the invocations before it
\* met an invalid credential, and a request that ends without reaching the
\* URL check ends with the 503 of fetch or the 401 of the credential path.
C12_InvalidUrlSendsNothing ==
    ~urlOk =>
        /\ \A i \in 1..Len(hist) :
              /\ hist[i].answer \in {"token-invalid", "bad-url"}
              /\ hist[i].answer = "bad-url" =>
                    (i = Len(hist) /\ pc = "done" /\ result = 400)
        /\ pc = "done" =>
              \/ result = 400 /\ hist # <<>> /\ hist[Len(hist)].answer = "bad-url"
              \/ result = 401 /\ hist # <<>> /\ hist[Len(hist)].answer = "token-invalid"
              \/ result = 503 /\ hist = <<>>

C12_Witness ==
    /\ ~urlOk
    /\ pc = "done"
    /\ result = 400
    /\ Len(hist) = 2
    /\ hist[1].answer = "token-invalid"
    /\ hist[2].answer = "bad-url"
    /\ hist[2].account # hist[1].account

(* =================== properties of the response handling =============== *)

\* The payloads of the events of the handled stream, in stream order.
EventPayloads ==
    LET events == SplitEvents(response.body.text)
    IN  [i \in 1..Len(events) |-> JoinedPayload(events[i])]

\* Payloads of type response.done or response.completed.
Completions == {"done1", "done2", "doneNone"}

C15_FirstCompletionEvent ==
    (/\ returned.by = "convertSseToJson"
     /\ response.body.kind = "text"
     /\ \E i \in DOMAIN EventPayloads : EventPayloads[i] \in {"done1", "done2"}) =>
        LET first == CHOOSE i \in DOMAIN EventPayloads :
                        /\ EventPayloads[i] \in Completions
                        /\ \A j \in 1..(i - 1) : EventPayloads[j] \notin Completions
        IN  returned.resp = Resp(response.status, JsonType,
                                 JsonBody(ParsePayload(EventPayloads[first])))

\* C15, amended: the adapter scans the events in stream order and returns the
\* response payload of the first completion event that carries one, passing
\* over completion events without a payload; when no event qualifies it scans
\* the data lines one by one in the same way.  The document is returned with
\* a JSON content type and the upstream status.
C15_FirstCompletionWithPayload ==
    (returned.by = "convertSseToJson" /\ response.body.kind = "text") =>
        LET lines == SelectSeq(response.body.text, LAMBDA l : l # "sep")
            Carries(p) == p \in {"done1", "done2"}
            AsJson(p) == Resp(response.status, JsonType, JsonBody(ParsePayload(p)))
        IN  /\ \A i \in DOMAIN EventPayloads :
                  (/\ Carries(EventPayloads[i])
                   /\ \A j \in 1..(i - 1) : ~Carries(EventPayloads[j]))
                     => returned.resp = AsJson(EventPayloads[i])
            /\ \A i \in DOMAIN lines :
                  (/\ \A j \in DOMAIN EventPayloads : ~Carries(EventPayloads[j])
                   /\ Carries(lines[i])
                   /\ \A j \in 1..(i - 1) : ~Carries(lines[j]))
                     => returned.resp = AsJson(lines[i])

C15_Witness ==
    /\ returned.by = "convertSseToJson"
    /\ response.body.kind = "text"
    /\ response.body.text = <<"other", "sep", "done2", "sep">>
    /\ response.status = 201
    /\ returned.resp = Resp(201, JsonType, JsonBody(2))

\* C16: when the consumed stream holds no completion event, neither as an
\* event nor on a data line, the adapter does not throw: it returns the
\* stream text as the body, with the upstream status and the headers it was
\* given, the content type as it was.
C16_NoCompletionReturnsRawText ==
    (/\ returned.by = "convertSseToJson"
     /\ response.body.kind = "text"
     /\ \A i \in DOMAIN EventPayloads : EventPayloads[i] \notin Completions
     /\ \A i \in DOMAIN response.body.text : response.body.text[i] \notin Completions) =>
        /\ returned.resp # Thrown
        /\ returned.resp.body = TextBody(response.body.text)
        /\ returned.resp.status = response.status
        /\ returned.resp.ctype = response.ctype

C16_Witness ==
    /\ returned.by = "convertSseToJson"
    /\ response = Resp(200, EventStream, TextBody(<<"other", "sep", "other", "sep">>))
    /\ returned.resp = response

\* C19: handleErrorResponse answers a 404 whose error body carries the code
\* usage_limit_reached with status 429 and the same body, and returns every
\* other 404 with status 404 and its body as they came.
C19_UsageLimit404Becomes429 ==
    (returned.by = "handleErrorResponse" /\ response.status = 404) =>
        /\ returned.resp.body = response.body
        /\ response.body.code = UsageLimitReached => returned.resp.status = 429
        /\ response.body.code # UsageLimitReached => returned.resp.status = 404

C19_Witness ==
    /\ returned.by = "handleErrorResponse"
    /\ response.status = 404
    /\ response.body = ErrorBody(UsageLimitReached)
    /\ returned.resp.status = 429
    /\ returned.resp.body = ErrorBody(UsageLimitReached)

(* ================= properties of the answers of fetch ================== *)

\* Resolution has nothing to give: the request has no session key bound to
\* an account of the pool, and no account is available for its model.
NoneResolved ==
    /\ ~(sessionKey # NoKey /\ bindings[sessionKey] \in Accounts)
    /\ AvailableAccounts(reqModel) = {}

\* C17: when resolution yields no account, fetch answers 503 at once: no
\* invocation of executeRequest takes place (so no credential is validated
\* or refreshed and nothing is dispatched) and the pool is left as it was;
\* a request that ended without any invocation was answered 503.
C17_NoAccountIs503 ==
    /\ [][(pc = "start" /\ NoneResolved) =>
             (/\ pc' = "done"
              /\ result' = 503
              /\ hist' = <<>>
              /\ UNCHANGED poolVars)]_vars
    /\ []((pc = "done" /\ hist = <<>>) => (result = 503 /\ cur = NoAccount))

C17_Witness ==
    /\ pc = "done"
    /\ result = 503
    /\ hist = <<>>
    /\ poolSize = 2
    /\ sessionKey # NoKey
    /\ boundAtArrival = poolSize
    /\ bindings[sessionKey] = Undefined

\* Statuses of the Response objects fetch can return.
ResponseStatuses == {200, 400, 401, 404, 429, 500, 503}

\* Classified failures of one invocation.
ClassifiedFailures ==
    {"bad-url", "token-invalid", "no-account-id", "429", "401", "400u", "400x",
     "404ul", "404", "500"}

\* C18: a chain of classified failures, in any combination, ends with a
\* Response object; an exception reaches the caller of fetch only when the
\* transport itself failed in the last invocation.
C18_FailuresEndInAResponse ==
    pc = "done" =>
        /\ hist = <<>> => result = 503
        /\ hist # <<>> =>
              LET last == hist[Len(hist)]
              IN  /\ last.answer \in ClassifiedFailures =>
                        result \in ResponseStatuses \ {200}
                  /\ result = Raised <=> last.answer = "transport-failure"

C18_Witness ==
    /\ pc = "done"
    /\ Len(hist) >= 3
    /\ \E i, j, k \in 1..Len(hist) :
          /\ hist[i].answer = "token-invalid"
          /\ hist[j].answer = "429"
          /\ hist[k].answer = "400u"
    /\ hist[Len(hist)].answer \in ClassifiedFailures
    /\ result \in ResponseStatuses

(* ==================== properties of the selection ====================== *)

\* The account of the latest selection that returned one.
LastPicked ==
    LET hits == {i \in 1..Len(picks) : picks[i] # NoAccount}
    IN  IF hits = {} THEN NoAccount
        ELSE picks[CHOOSE i \in hits : \A j \in hits : i >= j]

\* C20: under the sticky strategy the current account is the one selected
\* last; a selection without exclusions returns it while it is available for
\* the requested model; once it is rate-limited for that model the selection
\* moves to another available account, which becomes the current one, so that
\* further selections stay there.
C20_StickyStaysUntilUnavailable ==
    /\ [](cursor = LastPicked)
    /\ [][\A m \in SelModels : SelectSticky(m) =>
             LET account == picks'[Len(picks')]
             IN  /\ (cursor # NoAccount /\ IsAvailable(cursor, m)) => account = cursor
                 /\ (/\ cursor # NoAccount
                     /\ ~IsAvailable(cursor, m)
                     /\ AvailableAccounts(m) # {}) =>
                        /\ account # cursor
                        /\ IsAvailable(account, m)
                        /\ cursor' = account]_vars

C20_Witness ==
    /\ poolSize = 2
    /\ picks = <<0, 1, 1>>
    /\ cursor = 1
    /\ rateLimited[0] = {ModelX}
    /\ rateLimited[1] = {}

\* C23: after an application of the exclusion query to a set of excluded
\* indices and a model (kept in tried and curModel, the answer in cur), the
\* answer is never an excluded account nor one that is unavailable for the
\* model (refresh-failed, or under a cool-down that is global or for that
\* model); it is the lowest index among the accounts that remain, and null
\* exactly when none remains.
C23_ExcludingAnswersLowestRemaining ==
    pc = "done" =>
        LET remaining == {a \in Accounts :
                            a \notin tried /\ IsAvailable(a, curModel)}
        IN  /\ cur \notin tried
            /\ cur # NoAccount => /\ cur \in Accounts
                                  /\ ~refreshFailed[cur]
                                  /\ NoModel \notin rateLimited[cur]
                                  /\ curModel \notin rateLimited[cur]
                                  /\ \A b \in remaining : cur <= b
            /\ cur = NoAccount <=> remaining = {}

\* Account 0 is cooling down for the model, account 1 is excluded: account 2
\* is the answer.
C23_Witness ==
    /\ poolSize = 3
    /\ rateLimited[0] = {ModelX} /\ rateLimited[1] = {} /\ rateLimited[2] = {}
    /\ \A a \in Accounts : ~refreshFailed[a]
    /\ pc = "done"
    /\ tried = {1}
    /\ curModel = ModelX
    /\ cur = 2

\* C21: round-robin. After N selections in a row for one model, on a pool
\* with N accounts available for it and unchanged meanwhile, the last N
\* selections are each available account exactly once, each the next
\* available index after the one before (wrapping around); when the whole
\* pool is available and the manager has made no other selection they are
\* 0, 1, ..., N-1, 0, ... from the start.
C21_RoundRobinVisitsEachOnce ==
    LET ok == AvailableAccounts(run.model)
        N == Cardinality(ok)
        n == Len(picks)
    IN  (strategy = "round-robin" /\ run.fn = "next" /\ N >= 1 /\ run.len >= N) =>
            /\ {picks[i] : i \in (n - N + 1)..n} = ok
            /\ \A i \in (n - N + 1)..(n - 1) :
                   \/ picks[i + 1] > picks[i] /\
                          \A a \in ok : ~(picks[i] < a /\ a < picks[i + 1])
                   \/ picks[i + 1] = Lowest(ok) /\ \A a \in ok : a <= picks[i]
            /\ (N = poolSize /\ run.len = n) =>
                   \A i \in 1..n : picks[i] = (i - 1) % N

\* Three selections on a pool of two available accounts: 0, 1 and 0 again.
C21_Witness ==
    /\ strategy = "round-robin"
    /\ poolSize = 2
    /\ \A a \in Accounts : rateLimited[a] = {}
    /\ run.fn = "next" /\ run.len = 3
    /\ picks = <<0, 1, 0>>

\* C22: round-robin. Every selection returns the available account that
\* comes soonest after the one returned last, counting indices with
\* wrap-around: the accounts passed over are exactly unavailable ones, so a
\* rate-limited account costs no turn and the rotation goes on over the rest.
C22_RoundRobinSkipsRateLimited ==
    [][\A m \in SelModels :
          (SelectRoundRobin(m) /\ AvailableAccounts(m) # {}) =>
              LET account == picks'[Len(picks')]
                  Dist(a) == IF cursor = NoAccount THEN a
                             ELSE (a + poolSize - cursor - 1) % poolSize
              IN  /\ IsAvailable(account, m)
                  /\ \A a \in Accounts :
                         Dist(a) < Dist(account) => ~IsAvailable(a, m)
                  /\ cursor' = account]_vars

\* Accounts 0, 1, 2 with account 1 rate-limited after the first selection:
\* the selections are 0, 2, 0.
C22_Witness ==
    /\ strategy = "round-robin"
    /\ poolSize = 3
    /\ rateLimited[0] = {} /\ rateLimited[1] = {ModelX} /\ rateLimited[2] = {}
    /\ run.model = ModelX
    /\ picks = <<0, 2, 0>>

\* C24: hybrid. Within a session a selection returns the current account
\* again as long as it is available for the model; and of two new sessions
\* started in a row for one model, on a pool unchanged meanwhile with at
\* least two accounts available for it, the second starts on another account
\* than the first.
C24_HybridSticksAndRotates ==
    /\ [][\A m \in SelModels :
             (SelectHybrid(m) /\ IsAvailable(cursor, m)) =>
                 picks'[Len(picks')] = cursor /\ cursor' = cursor]_vars
    /\ [](  (/\ strategy = "hybrid"
             /\ run.fn = "new"
             /\ run.len >= 2
             /\ Cardinality(AvailableAccounts(run.model)) >= 2)
          => picks[Len(picks)] # picks[Len(picks) - 1])

\* A first session starts on account 0, a second on account 1 and selects
\* again: account 1.
C24_Witness ==
    /\ strategy = "hybrid"
    /\ poolSize = 2
    /\ \A a \in Accounts : rateLimited[a] = {}
    /\ run.fn = "next"
    /\ picks = <<0, 1, 1>>

(* ================== properties of the failover steps =================== *)

\* C25: the body an invocation sends to the backend is the caller's body,
\* untouched, until a fallback model is substituted; from then on it has the
\* fallback model and the caller's other fields (as the JSON parser read
\* them).
C25_BodySentIsTheCallersBody ==
    [][(Len(hist') = Len(hist) + 1 /\ hist'[Len(hist')].answer \in Upstream) =>
          IF restarts = 0
          THEN initBody = CallerBody
          ELSE /\ initBody.rest = CallerBody.rest
               /\ initBody.model = ModelFallbacks(reqModel)
               /\ initBody.model # reqModel]_vars

\* A request for ModelX was refused as unsupported and sent again with the
\* fallback model, which the backend answered.
C25_Witness ==
    /\ pc = "done"
    /\ reqModel = ModelX
    /\ restarts = 1
    /\ Len(hist) > passStart
    /\ hist[1].model = ModelX /\ hist[1].answer = "400u"
    /\ hist[Len(hist)].model = ModelY /\ hist[Len(hist)].answer = "200"
    /\ initBody = [model |-> ModelY, rest |-> "caller", text |-> "serialised"]

\* A step in which one invocation of executeRequest meets the given answer.
Met(answer) ==
    /\ Len(hist') = Len(hist) + 1
    /\ hist'[Len(hist')].answer = answer

\* The accounts outside the tried set (the current account is in it) that
\* the pool, as the step leaves it, has available for a model.
OthersAfter(m) ==
    {a \in Accounts : /\ a \notin tried \cup {cur}
                      /\ IsAvailableIn(rateLimited', refreshFailed', a, m)}

\* C26: when the token of the current account does not validate, nothing is
\* sent on that account; the chain moves to an account outside the tried set
\* that the pool has available (asked without a model) and keeps retryCount
\* when there is one, and ends with a 401 when there is none.
C26_TokenInvalidSwitchesOrEnds401 ==
    [][Met("token-invalid") =>
          /\ hist'[Len(hist')].account = cur
          /\ hist'[Len(hist')].answer \notin Upstream
          /\ IF OthersAfter(NoModel) # {}
             THEN /\ pc' = "exec"
                  /\ cur' \in OthersAfter(NoModel)
                  /\ retryCount' = retryCount
                  /\ tried' = tried \cup {cur}
             ELSE /\ pc' = "done"
                  /\ result' = 401]_vars

\* The token of the first account did not validate after a failover had
\* raised retryCount; the chain moved on and the next account answered.
C26_Witness ==
    /\ pc = "done"
    /\ Len(hist) = 3
    /\ hist[1].answer = "429"
    /\ hist[2].answer = "token-invalid"
    /\ hist[3].answer = "200"
    /\ hist[3].account \notin {hist[1].account, hist[2].account}
    /\ retryCount = 1
    /\ result = 200

\* C27: every 429 leaves the attempted account with a cool-down for the
\* model of the request (a global one when the request names none), and the
\* failover that follows sees the pool with that cool-down.  The chain
\* recurses, with retryCount + 1 and on an account outside the tried set
\* available for the model, exactly when retryCount < poolSize - 1 and such
\* an account exists; otherwise the caller gets the 429.
C27_RateLimitedMarksThenFailsOver ==
    [][Met("429") =>
          /\ curModel \in rateLimited'[cur]
          /\ \A a \in Accounts : rateLimited[a] \subseteq rateLimited'[a]
          /\ IF retryCount < poolSize - 1 /\ OthersAfter(curModel) # {}
             THEN /\ pc' = "exec"
                  /\ cur' \in OthersAfter(curModel)
                  /\ retryCount' = retryCount + 1
             ELSE /\ pc' = "done"
                  /\ result' = 429
                  /\ UNCHANGED <<cur, retryCount>>]_vars

\* Two accounts, a request for ModelX: the first answers 429 and the chain
\* moves to the second, which answers 429 too and has no successor.
C27_Witness ==
    /\ pc = "done"
    /\ poolSize = 2
    /\ reqModel = ModelX
    /\ Len(hist) = 2
    /\ hist[1].answer = "429" /\ hist[2].answer = "429"
    /\ hist[1].account # hist[2].account
    /\ ModelX \in rateLimited[0] /\ ModelX \in rateLimited[1]
    /\ retryCount = 1
    /\ result = 429

\* C28: every 401 leaves the attempted account marked refresh-failed; the
\* chain recurses with retryCount + 1 on an account outside the tried set
\* available for the model when there is one, and otherwise the caller gets
\* the 401.
C28_UnauthorizedMarksThenFailsOver ==
    [][Met("401") =>
          /\ refreshFailed'[cur]
          /\ rateLimited' = rateLimited
          /\ IF OthersAfter(curModel) # {}
             THEN /\ pc' = "exec"
                  /\ cur' \in OthersAfter(curModel)
                  /\ retryCount' = retryCount + 1
             ELSE /\ pc' = "done"
                  /\ result' = 401
                  /\ UNCHANGED <<cur, retryCount>>]_vars

\* The first account answers 401 and the chain moves to another account,
\* which answers 401 too with no account left.
C28_Witness ==
    /\ pc = "done"
    /\ poolSize = 2
    /\ Len(hist) = 2
    /\ hist[1].answer = "401" /\ hist[2].answer = "401"
    /\ hist[1].account # hist[2].account
    /\ refreshFailed[0] /\ refreshFailed[1]
    /\ retryCount = 1
    /\ result = 401

\* C29: on a model-unsupported 400 for a request that names a model, while
\* an account outside the tried set is available for that model, the chain
\* switches to such an account with retryCount unchanged, and the rejecting
\* account gets no cool-down and no refresh-failed mark.
C29_UnsupportedSwitchesAccount ==
    [][(Met("400u") /\ curModel # NoModel /\ OthersAfter(curModel) # {}) =>
          /\ pc' = "exec"
          /\ cur' \in OthersAfter(curModel)
          /\ retryCount' = retryCount
          /\ rateLimited' = rateLimited
          /\ refreshFailed'[cur] => refreshFailed[cur]]_vars

C31_OtherErrorsEndTheRequest ==
    [][\A u \in {"400x", "404ul", "404", "500"} :
          Met(u) =>
              /\ pc' = "done"
              /\ result' = IF u = "404ul" THEN 429
                           ELSE UpstreamError(u).status
              /\ rateLimited' = rateLimited
              /\ \A a \in Accounts : refreshFailed'[a] => refreshFailed[a]
              /\ UNCHANGED <<cur, retryCount, curModel, initBody>>]_vars

\* The first of two available accounts answered 500 and the request ended
\* there.
C31_Witness ==
    /\ pc = "done"
    /\ poolSize = 2
    /\ \A a \in Accounts : rateLimited[a] = {} /\ ~refreshFailed[a]
    /\ Len(hist) = 1
    /\ hist[1].answer = "500"
    /\ result = 500

\* C39: cool-downs are recorded on answers of status 429 only.  A 404 that
\* carries the usage-limit code reaches the caller as a 429 after that one
\* attempt: the account gets no cool-down and no other account is tried.
C39_UsageLimit404IsNotFailedOver ==
    [][/\ (\E a \in Accounts : rateLimited'[a] # rateLimited[a]) => Met("429")
       /\ Met("404ul") =>
              /\ pc' = "done"
              /\ result' = 429
              /\ rateLimited' = rateLimited
              /\ hist' = Append(hist, [account |-> cur, model |-> curModel,
                                       answer |-> "404ul", logged |-> TRUE])
              /\ UNCHANGED <<cur, retryCount>>]_vars

\* A request for ModelX on a pool of two available accounts: the first
\* answered the usage-limit 404, the caller has a 429, the account has no
\* cool-down and the second account was not tried.
C39_Witness ==
    /\ pc = "done"
    /\ poolSize = 2
    /\ reqModel = ModelX
    /\ \A a \in Accounts : rateLimited[a] = {} /\ ~refreshFailed[a]
    /\ Len(hist) = 1
    /\ hist[1].answer = "404ul"
    /\ tried = {hist[1].account}
    /\ result = 429

(* ================= properties of the session resolution ================ *)

\* C32: resolving a key bound to an index that resolves to no account
\* leaves the key bound to the account the request starts on, an account of
\* the pool available for the model, or unbound when there was none (the
\* request is answered 503); no other key is touched.
C32_StaleBindingIsReplaced ==
    [][(/\ pc = "start"
        /\ pc' # "start"
        /\ sessionKey # NoKey
        /\ bindings[sessionKey] # Undefined
        /\ bindings[sessionKey] \notin Accounts) =>
          /\ \A k \in DOMAIN bindings : k # sessionKey => bindings'[k] = bindings[k]
          /\ IF AvailableAccounts(reqModel) # {}
             THEN /\ pc' = "exec"
                  /\ cur' \in AvailableAccounts(reqModel)
                  /\ bindings'[sessionKey] = cur'
             ELSE /\ pc' = "done"
                  /\ result' = 503
                  /\ bindings'[sessionKey] = Undefined]_vars

\* The key was bound to index 2 of a pool of two accounts; it is now bound
\* to the account the request starts on.
C32_Witness ==
    /\ poolSize = 2
    /\ sessionKey = "s1"
    /\ boundAtArrival = 2
    /\ pc = "exec"
    /\ hist = <<>>
    /\ cur \in Accounts
    /\ bindings["s1"] = cur

\* C33: resolving a key that has no binding.  When the selection returns an
\* account (one available for the model), the key is bound to its index and
\* the store has written the binding file (the new document, unless the
\* write failed) before anything is dispatched, and dispatch starts on the
\* account the key is bound to; when it returns none, nothing is bound or
\* written and the request is answered 503.
C33_UnseenKeyIsBoundBeforeDispatch ==
    [][(/\ pc = "start"
        /\ pc' # "start"
        /\ sessionKey # NoKey
        /\ bindings[sessionKey] = Undefined) =>
          /\ hist' = <<>>
          /\ (pc' = "exec") <=> (AvailableAccounts(reqModel) # {})
          /\ IF pc' = "exec"
             THEN /\ cur' \in AvailableAccounts(reqModel)
                  /\ bindings' = [bindings EXCEPT ![sessionKey] = cur']
                  /\ file' \in {Serialize(bindings'), file, Truncated}
             ELSE /\ result' = 503
                  /\ bindings' = bindings
                  /\ file' = file]_vars

\* The key is bound to the account the request is about to be dispatched
\* on, and the binding is on disk.
C33_Witness ==
    /\ sessionKey = "s1"
    /\ boundAtArrival = Undefined
    /\ pc = "exec"
    /\ hist = <<>>
    /\ bindings["s1"] = cur
    /\ file = Serialize(bindings)
    /\ file # prevFile

(* ==================== properties of the retry budget =================== *)

C35_CooldownIsANumber ==
    retryAfter.computed =>
        /\ retryAfter.ms # NaN
        /\ (/\ retryAfter.header \in {"absent", ""}
            /\ retryAfter.resetTime.kind \in {"unparseable", "absent"})
              => retryAfter.ms = 60000
        /\ (/\ retryAfter.header \in {"absent", ""}
            /\ retryAfter.resetTime.kind \in {"number", "date"}
            /\ retryAfter.resetTime.at # 0)
              => retryAfter.ms = retryAfter.resetTime.at - retryAfter.now
        /\ retryAfter.header = "2" => retryAfter.ms = 2000

(* ===================== properties of the tried set ===================== *)

\* The accounts of the invocations of the current model pass.
AttemptedInPass == {hist[i].account : i \in (passStart + 1)..Len(hist)}

\* C36: within one logical request no account is attempted twice for the
\* same model: the tried set holds exactly the accounts already attempted
\* in the current model pass, only grows within the pass, and the account
\* every failover moves to is outside it.
C36_NoAccountTwicePerModel ==
    [][/\ tried = AttemptedInPass
       /\ pc = "exec" => cur \notin tried
       /\ passStart' = passStart /\ pc # "start" => tried \subseteq tried'
       /\ Len(hist') = Len(hist) + 1 =>
             /\ \A i \in 1..Len(hist) :
                   ~(/\ hist[i].account = hist'[Len(hist')].account
                     /\ hist[i].model = hist'[Len(hist')].model)
             /\ passStart' = passStart => tried' = tried \cup {cur}
             /\ pc' = "exec" => cur' \notin tried'
      ]_vars

C36_Witness ==
    /\ poolSize = 3
    /\ pc = "exec"
    /\ restarts = 0
    /\ Len(hist) = 2
    /\ hist[1].answer = "429"
    /\ hist[2].answer = "400u"
    /\ tried = {hist[1].account, hist[2].account}
    /\ Cardinality(tried) = 2
    /\ cur \notin tried

(* =================== properties of the surfaced 429 ==================== *)

\* C38: a 429 reaches the caller only when no account outside the tried set
\* is available for the model of the request: the retryCount budget never
\* stops a failover that has an account to go to.
C38_Surfaced429MeansNoneLeft ==
    [][Met("429") /\ pc' = "done" => OthersAfter(curModel) = {}]_vars

(* ================= properties of the diagnostic write ================== *)

\* C40: the step that follows a model-unsupported 400 is decided by the
\* request and the pool alone, whether or not last-400-error.json could be
\* written: a switch to an untried account available for the model when
\* there is one, else a restart with the fallback model when the model has
\* one, else the 400 for the caller (as for a request that names no model).
C40_SameStepWhateverTheWrite ==
    [][Met("400u") =>
          IF curModel # NoModel /\ OthersAfter(curModel) # {}
          THEN /\ pc' = "exec"
               /\ cur' \in OthersAfter(curModel)
               /\ restarts' = restarts
          ELSE IF curModel # NoModel /\ ModelFallbacks(curModel) # NoModel
          THEN /\ pc' = "exec"
               /\ restarts' = restarts + 1
               /\ curModel' = ModelFallbacks(curModel)
          ELSE /\ pc' = "done"
               /\ result' = 400]_vars

(* ================ properties of concurrent requests ==================== *)

\* C37: while requests interleave, a session key bound to the index of an
\* existing account is never bound to another index; two requests with the
\* same key, unseen before, that both got an account are dispatched first
\* to the same account, and the key is bound to it.
C37_BindingIsStableUnderInterleaving ==
    [][/\ \A k \in SessionKeys :
             bindings[k] \in Accounts => bindings'[k] = bindings[k]
       /\ (/\ inflight'["r1"].key = inflight'["r2"].key
           /\ inflight'["r1"].at = "dispatched"
           /\ inflight'["r2"].at = "dispatched")
             => /\ inflight'["r1"].account = inflight'["r2"].account
                /\ bindings'[inflight'["r1"].key] = inflight'["r1"].account
      ]_vars

====
